---------------------------- MODULE Spec2Model ----------------------------
(***************************************************************************)
(* Lifecycle coordinator of shuldan/app: the registry, the runner          *)
(* (initAll / startAll / shutdownModules / shutdownAll), the background    *)
(* error aggregator and Application.Run with its shutdown routine.         *)
(*                                                                         *)
(* Every Run invocation is a "call" k in Calls with its own program        *)
(* counter and locals.  Module calls (Init, Start, Stop) and hook          *)
(* callbacks are user code: their outcome is drawn at the call.  A Stop    *)
(* call is two steps, the call and its return, so that a Stop that has     *)
(* not returned (or never returns) is a state of the model.                *)
(***************************************************************************)
EXTENDS Naturals, Integers, Sequences, FiniteSets, TLC

\* ------------------------------------------------------------- bounds
\* Number of distinct modules the callers may register.
NumModules == 3
\* Number of Run invocations made on the Application.
MaxCalls == 2
\* Number of callers of Register that may be inside register at once.
MaxRegistrants == 2

Modules == 1..NumModules
Calls == 1..MaxCalls
Registrants == 1..MaxRegistrants

\* ---------------------------------------------------------- constants
\* make(chan error, 1) in Application.shutdown.
ShutdownErrChCap == 1
\* make(chan error, 1) of a background module's Err() channel.
BgErrChCap == 1

\* A second module instance whose Name() is that of module 1.
Twin == NumModules + 1

\* A module value is its index m; module 0 is a module whose Name() is "".
ModuleName(m) ==
  IF m = 0 THEN ""
  ELSE IF m = Twin THEN "m1"
  ELSE <<"m1", "m2", "m3", "m4", "m5">>[m]

\* ------------------------------------------------------------- errors
\* An error value is the flat sequence of its leaf errors; nil is <<>>.
\* errors.Join drops nil arguments and keeps the order of the others.
Nil == <<>>
Leaf(kind, id) == <<[k |-> kind, id |-> id]>>
Join(a, b) == a \o b

ErrApplicationAlreadyRunning == Leaf("already_running", 0)
ErrGracefulShutdownTimedOut == Leaf("shutdown_timed_out", 0)
ErrRegistrationClosed == Leaf("registration_closed", 0)
ErrModuleNameEmpty == Leaf("module_name_empty", 0)
ErrModuleAlreadyRegistered(m) == Leaf("module_already_registered", m)

\* fmt.Errorf("init module %q: %w", ...) and its siblings: the leaf keeps
\* the phase and the module (or hook) it names.
InitErr(m) == Leaf("init", m)
StartErr(m) == Leaf("start", m)
StopErr(m) == Leaf("stop", m)
HookErr(kind, i) == Leaf(kind, i)
BgErr(m) == Leaf("background", m)
\* fmt.Errorf("module %q: %w", m.Name(), err) of Health.
HealthErr(m) == Leaf("health", m)

\* errors.Is(err, target) for a sentinel target.
ErrIs(err, target) == \E i \in 1..Len(err) : <<err[i]>> = target

\* -------------------------------------------------------------- hooks
\* A Hook is four optional callbacks; TRUE means the callback is set.
HookKinds == {"BeforeStart", "AfterStart", "BeforeStop", "AfterStop"}
HookAll == [BeforeStart |-> TRUE, AfterStart |-> TRUE,
            BeforeStop |-> TRUE, AfterStop |-> TRUE]
HookOnlyAfterStart == [BeforeStart |-> FALSE, AfterStart |-> TRUE,
                       BeforeStop |-> FALSE, AfterStop |-> FALSE]
HookNone == [BeforeStart |-> FALSE, AfterStart |-> FALSE,
             BeforeStop |-> FALSE, AfterStop |-> FALSE]
HookOnly(kind) == [HookNone EXCEPT ![kind] = TRUE]

\* The Hook values passed to WithHook: none of the callbacks set, one of
\* them, all of them.
HookShapes == {HookNone, HookAll} \cup {HookOnly(kind) : kind \in HookKinds}

\* The hook lists New builds from at most MaxHooks WithHook options.
MaxHooks == 2
HookConfigs ==
  UNION {[1..n -> HookShapes] : n \in 0..MaxHooks}

VARIABLES
  \* registry
  modules,          \* registry.modules: the ordered module sequence
  names,            \* registry.names: the set of registered names
  locked,           \* registry.locked
  reg,              \* the register call each registrant is in, if any
  health,           \* the Health call in progress, if any, and its result
  view,             \* a getAll() snapshot in the hands of a caller
  \* Application
  isRunning,        \* Application.isRunning
  shutdownTimeout,  \* Application.shutdownTimeout: 0, or 1 for any T > 0
  hooks,            \* Application.hooks
  faults,           \* the kinds of user code that may return an error
  bgSet,            \* the modules that implement BackgroundModule
  startTime,        \* meta.startTime (0 is the zero time)
  stopTime,         \* meta.stopTime (0 is the zero time)
  now,              \* the clock time.Now() reads
  \* one Run invocation k
  pc,               \* where call k is in Run
  snap,             \* the getAll() snapshot the current loop ranges over
  idx,              \* the loop index into snap (or into started)
  started,          \* startAll's started slice / Run's startedModules
  errs,             \* shutdownModules' errs slice (synchronous calls)
  pend,             \* the error in hand: start or hook error, shutdownErr
  ret,              \* what Run returned (meaningful when pc = "returned")
  ctxDone,          \* the run context of call k is cancelled
  sig,              \* the signal listener goroutine of call k
  \* the timed shutdown race of call k
  gor,              \* the goroutine running shutdownAll(shutdownCtx)
  errCh,            \* its result channel (capacity 1)
  timerFired,       \* shutdownCtx is done (deadline passed or cancelled)
  duringStop,       \* history: the deadline passed during a Stop call
  delivered,        \* history: the deadline passed after shutdownAll's send
  \* the background error aggregator of call k
  bgCh,             \* each background module's own Err() channel
  rdr,              \* reader goroutine of call k for module m
  bgHist,           \* history: what each reader received and forwarded
  merged,           \* the fan-in channel of call k
  \* history
  cur,              \* the call that won the compare-and-swap last
  log               \* the calls made on modules and hooks by call cur

\* The registry, and the calls that read it from outside Run.
regVars == <<modules, names, locked, reg, health, view>>
cfgVars == <<shutdownTimeout, hooks, faults, bgSet>>
appVars == <<isRunning, shutdownTimeout, hooks, faults, bgSet>>
metaVars == <<startTime, stopTime, now>>
loopVars == <<snap, idx, started, errs, pend>>
raceVars == <<gor, errCh, timerFired, duringStop, delivered>>
aggVars == <<bgCh, rdr, merged, bgHist>>
histVars == <<cur, log>>
vars == <<modules, names, locked, reg, health, view, isRunning,
          shutdownTimeout, hooks, faults, bgSet,
          startTime, stopTime, now, pc, snap, idx, started, errs, pend,
          ret, ctxDone, sig, gor, errCh, timerFired, duringStop, delivered,
          bgCh, rdr, merged, bgHist,
          cur, log>>

\* `bg, ok := m.(BackgroundModule)`: the module has an Err() method.
IsBackground(m) == m \in bgSet

\* ------------------------------------------------------------ history
\* One entry of the call history.  op is the method or callback called
\* ("Stop" is the call, "StopRet" its return, "Select" a select statement
\* of Run taking a case), id the module or the hook's index, res the
\* outcome and ctx the context the call was given.
Ev(op, id, res, ctx) == [op |-> op, id |-> id, res |-> res, ctx |-> ctx]
Res(ok) == IF ok THEN "ok" ELSE "err"

\* The history is that of the call that won the compare-and-swap last;
\* a goroutine left over from an earlier call does not write to it.
Record(k, evs) == IF k = cur THEN log \o evs ELSE log

\* ------------------------------------------------------------ helpers
\* The goroutine of the timed shutdown race before it is launched.
GorNone == [st |-> "none", snap |-> <<>>, idx |-> 0, errs |-> <<>>]
\* A channel that was never made (a nil channel).
NoChan == [made |-> FALSE, buf |-> <<>>, closed |-> FALSE, cap |-> 0]

\* A registrant that is not inside register.  In a call, m is the module
\* offered, res the value returned and late whether the call changed the
\* registry after lock() had stored true (history).
RegIdle == [st |-> "idle", m |-> 0, res |-> Nil, late |-> FALSE]
\* No Health call was made yet.
HealthIdle == [st |-> "idle", snap |-> <<>>, idx |-> 0, calls |-> <<>>,
              errs |-> <<>>, ret |-> Nil]
\* No caller holds a snapshot.  shared: the snapshot's slice has the
\* backing array of registry.modules.
NoView == [taken |-> FALSE, seq |-> <<>>, shared |-> FALSE]

\* No reader has received a value and none was forwarded into a fan-in
\* channel.
NoBgHist == [got |-> [k \in Calls |-> [m \in Modules |-> "none"]],
             sent |-> [k \in Calls |-> <<>>]]

\* The locals of a Run invocation that has not started or has returned.
NoLocals(k) ==
  /\ snap' = [snap EXCEPT ![k] = <<>>]
  /\ idx' = [idx EXCEPT ![k] = 0]
  /\ started' = [started EXCEPT ![k] = <<>>]
  /\ errs' = [errs EXCEPT ![k] = <<>>]
  /\ pend' = [pend EXCEPT ![k] = Nil]

\* The graceful timeouts the Application is constructed with
\* (WithGracefulTimeout rejects T < 0): 0, or 1 for any T > 0.
TimeoutConfigs == {0, 1}

\* The kinds of user code whose calls may return an error.
FaultKinds == {"init", "start", "stop", "hook"}

\* --------------------------------------------------------------- Init
\* The state after New(opts...): an empty unlocked registry, not running.
\* The hooks and the kinds of user code that may fail are the scenario.
InitWithBg(hookConfig, faultKinds, timeouts, bg) ==
  /\ modules = <<>>
  /\ names = {}
  /\ locked = FALSE
  /\ reg = [c \in Registrants |-> RegIdle]
  /\ health = HealthIdle
  /\ view = NoView
  /\ isRunning = FALSE
  /\ shutdownTimeout \in timeouts
  /\ hooks = hookConfig
  /\ faults = faultKinds
  /\ bgSet = bg
  /\ startTime = 0
  /\ stopTime = 0
  /\ now = 0
  /\ pc = [k \in Calls |-> "idle"]
  /\ snap = [k \in Calls |-> <<>>]
  /\ idx = [k \in Calls |-> 0]
  /\ started = [k \in Calls |-> <<>>]
  /\ errs = [k \in Calls |-> <<>>]
  /\ pend = [k \in Calls |-> Nil]
  /\ ret = [k \in Calls |-> Nil]
  /\ ctxDone = [k \in Calls |-> FALSE]
  /\ sig = [k \in Calls |-> "none"]
  /\ gor = [k \in Calls |-> GorNone]
  /\ errCh = [k \in Calls |-> <<>>]
  /\ timerFired = [k \in Calls |-> FALSE]
  /\ duringStop = [k \in Calls |-> FALSE]
  /\ delivered = [k \in Calls |-> FALSE]
  /\ bgCh = [m \in Modules |-> [buf |-> <<>>, closed |-> FALSE]]
  /\ rdr = [k \in Calls |-> [m \in Modules |-> "none"]]
  /\ merged = [k \in Calls |-> NoChan]
  /\ bgHist = NoBgHist
  /\ cur = 0
  /\ log = <<>>

\* The same with every second module a BackgroundModule.
InitWith(hookConfig, faultKinds, timeouts) ==
  InitWithBg(hookConfig, faultKinds, timeouts, {m \in Modules : m % 2 = 0})

\* Two hooks, the first with only AfterStart set; any user code may fail.
Init == InitWith(<<HookOnlyAfterStart, HookAll>>, FaultKinds, TimeoutConfigs)

\* The outcomes of a call of user code of one kind: TRUE is a nil error.
Outcomes(kind) == IF kind \in faults THEN BOOLEAN ELSE {TRUE}

\* ----------------------------------------------------------- registry
\* An insertion at the head of the sequence (variant).
Prepended(seq, m) == <<m>> \o seq

\* `r.modules = append(r.modules, module)`: the insertion of line 41.
Appended(seq, m) == Append(seq, m)

\* registry.register, for callers that do not overlap lock(): the result
\* of the checks in the order the code makes them.
RegisterResult(m) ==
  IF locked THEN ErrRegistrationClosed
  ELSE IF ModuleName(m) = "" THEN ErrModuleNameEmpty
  ELSE IF ModuleName(m) \in names THEN ErrModuleAlreadyRegistered(m)
  ELSE Nil

\* Application.Register(module) -> registry.register(module).
Register(m) ==
  /\ IF RegisterResult(m) = Nil
       THEN /\ names' = names \cup {ModuleName(m)}
            /\ modules' = Appended(modules, m)
       ELSE UNCHANGED <<names, modules>>
  /\ UNCHANGED <<locked, reg, health, view, appVars, metaVars, pc, loopVars, ret, ctxDone,
                 sig, raceVars, aggVars, histVars>>

\* A register call that skips the check of the locked flag (variant).
LockedLoadStale == FALSE

\* r.locked.Load(): the flag as register reads it.
LockedLoad == locked

\* A name check that lets every name pass (variant).
NameIsEmptyNever(m) == FALSE

\* `name == ""`: the name check of line 29.
NameIsEmpty(m) == ModuleName(m) = ""

\* registry.register step by step, for callers that may overlap lock()
\* and each other.  Lines 24-31: the load of the locked flag and the
\* check of the name, both made before the mutex is taken.
RegisterLoad(c, m) ==
  /\ reg[c].st = "idle"
  /\ reg' = [reg EXCEPT ![c] =
       IF LockedLoad
         THEN [st |-> "done", m |-> m, res |-> ErrRegistrationClosed,
               late |-> FALSE]
       ELSE IF NameIsEmpty(m)
         THEN [st |-> "done", m |-> m, res |-> ErrModuleNameEmpty,
               late |-> FALSE]
       ELSE [st |-> "checked", m |-> m, res |-> Nil, late |-> FALSE]]
  /\ UNCHANGED <<modules, names, locked, health, view, appVars, metaVars, pc, loopVars,
                 ret, ctxDone, sig, raceVars, aggVars, histVars>>

\* A duplicate check that never finds the name (variant).
NameExistsNever(m) == FALSE

\* `_, exists := r.names[name]`: the duplicate check of line 36.
NameExists(m) == ModuleName(m) \in names

\* Lines 33-42: under the mutex, the duplicate check and the insertion.
RegisterCommit(c) ==
  /\ reg[c].st = "checked"
  /\ LET m == reg[c].m IN
       IF NameExists(m)
         THEN /\ reg' = [reg EXCEPT ![c].st = "done",
                                    ![c].res = ErrModuleAlreadyRegistered(m)]
              /\ UNCHANGED <<names, modules>>
         ELSE /\ names' = names \cup {ModuleName(m)}
              /\ modules' = Appended(modules, m)
              /\ reg' = [reg EXCEPT ![c].st = "done", ![c].late = locked]
  /\ UNCHANGED <<locked, health, view, appVars, metaVars, pc, loopVars, ret, ctxDone, sig,
                 raceVars, aggVars, histVars>>

\* The caller has the result and may call Register again.
RegisterReturn(c) ==
  /\ reg[c].st = "done"
  /\ reg' = [reg EXCEPT ![c] = RegIdle]
  /\ UNCHANGED <<modules, names, locked, health, view, appVars, metaVars, pc, loopVars,
                 ret, ctxDone, sig, raceVars, aggVars, histVars>>

\* registry.lock(), called on its own: the store of true.
RegistryLock ==
  /\ locked' = TRUE
  /\ UNCHANGED <<modules, names, reg, health, view, appVars, metaVars, pc, loopVars, ret,
                 ctxDone, sig, raceVars, aggVars, histVars>>

\* registry.getAll: a copy of the module sequence.
GetAll == [i \in 1..Len(modules) |-> modules[i]]

\* The nil a caller stores in an element of a snapshot.
NilModule == -1

\* A getAll that returns r.modules itself (variant).
GetAllSliceAliased == [taken |-> TRUE, seq |-> modules, shared |-> TRUE]

\* The slice a caller of getAll receives: make allocates a backing array
\* of its own and copy fills it with the registry's elements.
GetAllSlice == [taken |-> TRUE, seq |-> GetAll, shared |-> FALSE]

\* A caller takes a snapshot of the registry.
ViewTake ==
  /\ view' = GetAllSlice
  /\ UNCHANGED <<modules, names, locked, reg, health, appVars, metaVars, pc,
                 loopVars, ret, ctxDone, sig, raceVars, aggVars, histVars>>

\* The write of seq2 over the elements of the snapshot the caller holds.
\* The write lands in the backing array of the snapshot, which is the
\* registry's array only when the two slices share it.
ViewWrite(seq2) ==
  /\ view.taken
  /\ seq2 # view.seq
  /\ view' = [view EXCEPT !.seq = seq2]
  /\ IF view.shared
       THEN modules' = [i \in 1..Len(modules) |->
                          IF i <= Len(seq2) THEN seq2[i] ELSE modules[i]]
       ELSE UNCHANGED modules
  /\ UNCHANGED <<names, locked, reg, health, appVars, metaVars, pc,
                 loopVars, ret, ctxDone, sig, raceVars, aggVars, histVars>>

\* all[i] = v: the caller overwrites one element of its snapshot with
\* nil or with another module.
ViewOverwrite(i, v) ==
  /\ i \in 1..Len(view.seq)
  /\ ViewWrite([view.seq EXCEPT ![i] = v])

\* all[i], all[j] = all[j], all[i]: the caller reorders its snapshot.
ViewSwap(i, j) ==
  /\ i \in 1..Len(view.seq)
  /\ j \in 1..Len(view.seq)
  /\ ViewWrite([view.seq EXCEPT ![i] = view.seq[j], ![j] = view.seq[i]])

\* The modules a caller offers for registration: the next unregistered
\* one, any registered one again (a duplicate name), and the module with
\* the empty name.
Offered == {0} \cup {m \in Modules : m <= Len(modules) + 1}

\* -------------------------------------------------------------- hooks
\* The outcomes of running the hooks of one kind: 0 when no callback
\* fails, else the index of the first callback that returns an error.
HookOutcomes(kind) ==
  {0} \cup {i \in 1..Len(hooks) : hooks[i][kind] /\ "hook" \in faults}

\* A loop that does not test the callback for nil (variant).
HookCallsUnsetToo(kind, f, ctx) ==
  LET all == [i \in 1..Len(hooks) |->
                Ev(kind, i, IF i = f THEN "err" ELSE "ok", ctx)]
      Invoked(e) == f = 0 \/ e.id <= f
  IN SelectSeq(all, Invoked)

\* A loop that goes on after a callback has failed (variant).
HookCallsPastError(kind, f, ctx) ==
  LET all == [i \in 1..Len(hooks) |->
                Ev(kind, i, IF i = f THEN "err" ELSE "ok", ctx)]
      Invoked(e) == hooks[e.id][kind]
  IN SelectSeq(all, Invoked)

\* runHooksBeforeStart and its three siblings: the callbacks invoked, in
\* the order of a.hooks, when the first failure is at f (0: none).  An
\* unset callback is skipped; the loop returns at the first error.
HookCalls(kind, f, ctx) ==
  LET all == [i \in 1..Len(hooks) |->
                Ev(kind, i, IF i = f THEN "err" ELSE "ok", ctx)]
      Invoked(e) == hooks[e.id][kind] /\ (f = 0 \/ e.id <= f)
  IN SelectSeq(all, Invoked)

\* ---------------------------------------------------- Application.Run
\* A faulty variant for comparison: a plain store, which never fails.
CompareAndSwapBlind(flag) == TRUE

\* Run, line 69: isRunning.CompareAndSwap(false, true) succeeds exactly
\* when the flag is false.
CompareAndSwap(flag) == flag = FALSE

\* A Run that stamps the start time before it tries the flag (variant).
RunCASStampFirst(k) ==
  /\ pc[k] = "idle"
  /\ \A j \in 1..(k - 1) : pc[j] # "idle"
  /\ now' = now + 1
  /\ startTime' = now'
  /\ IF ~CompareAndSwap(isRunning)
       THEN /\ pc' = [pc EXCEPT ![k] = "returned"]
            /\ ret' = [ret EXCEPT ![k] = ErrApplicationAlreadyRunning]
            /\ UNCHANGED <<isRunning, histVars>>
       ELSE /\ isRunning' = TRUE
            /\ pc' = [pc EXCEPT ![k] = "lock"]
            /\ ret' = [j \in Calls |-> Nil]
            /\ cur' = k
            /\ log' = <<>>
  /\ UNCHANGED <<regVars, cfgVars, stopTime, loopVars, ctxDone, sig,
                 raceVars, aggVars>>

\* Run, lines 69-71: that atomic step of invocation k.  Calls are
\* numbered in the order they are made.  The history restarts with the
\* winner.
RunCAS(k) ==
  /\ pc[k] = "idle"
  /\ \A j \in 1..(k - 1) : pc[j] # "idle"
  /\ IF ~CompareAndSwap(isRunning)
       THEN /\ pc' = [pc EXCEPT ![k] = "returned"]
            /\ ret' = [ret EXCEPT ![k] = ErrApplicationAlreadyRunning]
            /\ UNCHANGED <<isRunning, histVars>>
       ELSE /\ isRunning' = TRUE
            /\ pc' = [pc EXCEPT ![k] = "lock"]
            /\ ret' = [j \in Calls |-> Nil]
            /\ cur' = k
            /\ log' = <<>>
  /\ UNCHANGED <<regVars, cfgVars, metaVars, loopVars, ctxDone, sig,
                 raceVars, aggVars>>

\* Run, lines 73-81: lock the registry, derive the run context, stamp the
\* start time, launch the signal listener.
RunLock(k) ==
  /\ pc[k] = "lock"
  /\ locked' = TRUE
  /\ now' = now + 1
  /\ startTime' = now'
  /\ sig' = [sig EXCEPT ![k] = "listening"]
  /\ pc' = [pc EXCEPT ![k] = "initAll"]
  /\ UNCHANGED <<modules, names, reg, health, view, appVars, stopTime, loopVars, ret,
                 ctxDone, raceVars, aggVars, histVars>>

\* meta.uptime: the time from the start time to the stop time, or to
\* now while the stop time is the zero time.
Uptime == (IF stopTime = 0 THEN now ELSE stopTime) - startTime

\* The caller of Run cancels the context it passed (at any time, also
\* before the call: the derived context is then done from the start).
ExternalCancel(k) ==
  /\ pc[k] \notin {"idle", "returned"}
  /\ ~ctxDone[k]
  /\ ctxDone' = [ctxDone EXCEPT ![k] = TRUE]
  /\ UNCHANGED <<regVars, appVars, metaVars, pc, loopVars, ret, sig,
                 raceVars, aggVars, histVars>>

\* setupSignalHandler, case sig := <-sigChan: cancel the run context.
SignalReceived(k) ==
  /\ sig[k] = "listening"
  /\ sig' = [sig EXCEPT ![k] = "done"]
  /\ ctxDone' = [ctxDone EXCEPT ![k] = TRUE]
  /\ UNCHANGED <<regVars, appVars, metaVars, pc, loopVars, ret, raceVars,
                 aggVars, histVars>>

\* setupSignalHandler, case <-ctx.Done(): return without acting.
SignalCtxDone(k) ==
  /\ sig[k] = "listening"
  /\ ctxDone[k]
  /\ sig' = [sig EXCEPT ![k] = "done"]
  /\ UNCHANGED <<regVars, appVars, metaVars, pc, loopVars, ret, ctxDone,
                 raceVars, aggVars, histVars>>

\* runner.initAll, line 15: the snapshot the loop ranges over.
InitAllGetAll(k) ==
  /\ pc[k] = "initAll"
  /\ snap' = [snap EXCEPT ![k] = GetAll]
  /\ idx' = [idx EXCEPT ![k] = 1]
  /\ pc' = [pc EXCEPT ![k] = IF Len(GetAll) = 0 THEN "beforeStart" ELSE "init"]
  /\ UNCHANGED <<regVars, appVars, metaVars, started, errs, pend, ret,
                 ctxDone, sig, raceVars, aggVars, histVars>>

\* A faulty variant for comparison: a failing Init does not end the loop.
InitNextContinue(k, ok) ==
  IF idx[k] = Len(snap[k]) THEN "beforeStart" ELSE "init"

\* Where initAll goes after module i of its snapshot returned ok or not.
InitNext(k, ok) ==
  IF ~ok THEN "exit"
  ELSE IF idx[k] = Len(snap[k]) THEN "beforeStart" ELSE "init"

\* runner.initAll, lines 16-19: one module's Init; the first failure is
\* returned, wrapped with the module's name (Run, line 85, returns it).
InitCall(k) ==
  /\ pc[k] = "init"
  /\ \E ok \in Outcomes("init") :
       LET m == snap[k][idx[k]] IN
       /\ log' = Record(k, <<Ev("Init", m, Res(ok), "run")>>)
       /\ pc' = [pc EXCEPT ![k] = InitNext(k, ok)]
       /\ idx' = [idx EXCEPT ![k] = IF ok THEN @ + 1 ELSE @]
       /\ pend' = [pend EXCEPT ![k] = IF ok THEN @ ELSE InitErr(m)]
  /\ UNCHANGED <<regVars, appVars, metaVars, snap, started, errs, ret,
                 ctxDone, sig, raceVars, aggVars, cur>>

\* A Run that goes on to start the modules whatever the hooks did
\* (variant).
BeforeStartNextAlways(f) == "startAll"

\* Run, lines 88-90: where Run goes after the BeforeStart hooks, f being
\* the first callback that failed (0: none).
BeforeStartNext(f) == IF f = 0 THEN "startAll" ELSE "exit"

\* Run, lines 88-90: the BeforeStart hooks; a failure aborts the run.
RunHooksBeforeStart(k) ==
  /\ pc[k] = "beforeStart"
  /\ \E f \in HookOutcomes("BeforeStart") :
       /\ log' = Record(k, HookCalls("BeforeStart", f, "run"))
       /\ pc' = [pc EXCEPT ![k] = BeforeStartNext(f)]
       /\ pend' = [pend EXCEPT ![k] =
                     IF f = 0 THEN @ ELSE HookErr("BeforeStart", f)]
  /\ UNCHANGED <<regVars, appVars, metaVars, snap, idx, started, errs, ret,
                 ctxDone, sig, raceVars, aggVars, cur>>

\* runner.startAll, lines 25-26: the snapshot and the empty started slice.
StartAllGetAll(k) ==
  /\ pc[k] = "startAll"
  /\ snap' = [snap EXCEPT ![k] = GetAll]
  /\ idx' = [idx EXCEPT ![k] = 1]
  /\ started' = [started EXCEPT ![k] = <<>>]
  /\ pc' = [pc EXCEPT ![k] = IF Len(GetAll) = 0 THEN "afterStart" ELSE "start"]
  /\ UNCHANGED <<regVars, appVars, metaVars, errs, pend, ret, ctxDone, sig,
                 raceVars, aggVars, histVars>>

\* A faulty variant for comparison: the failing module is rolled back too.
RollbackListWithFailed(k) == Append(started[k], snap[k][idx[k]])

\* The modules startAll rolls back when a Start fails: those started.
RollbackList(k) == started[k]

\* runner.startAll, lines 28-38: one module's Start.  On failure the
\* started modules are stopped (shutdownModules with a background
\* context) and the start error is joined with the rollback's.
StartCall(k) ==
  /\ pc[k] = "start"
  /\ \E ok \in Outcomes("start") :
       LET m == snap[k][idx[k]] IN
       /\ log' = Record(k, <<Ev("Start", m, Res(ok), "run")>>)
       /\ IF ok
            THEN /\ started' = [started EXCEPT ![k] = Append(@, m)]
                 /\ idx' = [idx EXCEPT ![k] = @ + 1]
                 /\ pc' = [pc EXCEPT ![k] =
                             IF idx[k] = Len(snap[k]) THEN "afterStart"
                                                      ELSE "start"]
                 /\ UNCHANGED <<snap, errs, pend>>
            ELSE /\ pend' = [pend EXCEPT ![k] = StartErr(m)]
                 /\ snap' = [snap EXCEPT ![k] = RollbackList(k)]
                 /\ idx' = [idx EXCEPT ![k] = Len(RollbackList(k))]
                 /\ errs' = [errs EXCEPT ![k] = <<>>]
                 /\ pc' = [pc EXCEPT ![k] = "startRollback"]
                 /\ UNCHANGED started
  /\ UNCHANGED <<regVars, appVars, metaVars, ret, ctxDone, sig, raceVars,
                 aggVars, cur>>

\* Run, lines 98-102: the AfterStart hooks; on a failure the started
\* modules are stopped with a background context.
RunHooksAfterStart(k) ==
  /\ pc[k] = "afterStart"
  /\ \E f \in HookOutcomes("AfterStart") :
       /\ log' = Record(k, HookCalls("AfterStart", f, "run"))
       /\ IF f = 0
            THEN /\ pc' = [pc EXCEPT ![k] = "collect"]
                 /\ UNCHANGED <<snap, idx, errs, pend>>
            ELSE /\ pend' = [pend EXCEPT ![k] = HookErr("AfterStart", f)]
                 /\ snap' = [snap EXCEPT ![k] = started[k]]
                 /\ idx' = [idx EXCEPT ![k] = Len(started[k])]
                 /\ errs' = [errs EXCEPT ![k] = <<>>]
                 /\ pc' = [pc EXCEPT ![k] = "hookRollback"]
  /\ UNCHANGED <<regVars, appVars, metaVars, started, ret, ctxDone, sig,
                 raceVars, aggVars, cur>>

\* ---------------------------------------------- runner.shutdownModules
\* errors.Join(errs...): nil when every element is nil, else the
\* non-nil elements in order.
\* A join that loses its arguments (variant).
JoinAllDropped(es) == Nil

RECURSIVE JoinAll(_)
JoinAll(es) == IF es = <<>> THEN Nil ELSE Join(Head(es), JoinAll(Tail(es)))

\* A faulty variant for comparison: the loop starts at the first module.
StopFirstForward(list) == IF Len(list) = 0 THEN 0 ELSE 1

\* shutdownModules, line 45: the loop starts at the last module of the
\* slice it is given and steps down to the first.
StopFirst(list) == Len(list)

\* A loop that does not step down (variant).
StopNextStay(i) == i

\* shutdownModules, line 45: `i--`.
StopNext(i) == i - 1

\* A faulty variant for comparison: only the last failure is kept.
StopCollectLast(es, m, ok) == IF ok THEN es ELSE <<StopErr(m)>>

\* shutdownModules, lines 48-52: a failing Stop is wrapped with the
\* module's name and collected; the loop goes on.
StopCollect(es, m, ok) == IF ok THEN es ELSE Append(es, StopErr(m))

\* The places of Run where shutdownModules runs on Run's own goroutine:
\* startAll's rollback, the AfterStart rollback, shutdownAll with no
\* timeout.  The second name is the place while a Stop has not returned.
SyncStopPcs == {"startRollback", "hookRollback", "syncShutdown"}
StopWaitPc(p) == CASE p = "startRollback" -> "startRollbackWait"
                   [] p = "hookRollback" -> "hookRollbackWait"
                   [] p = "syncShutdown" -> "syncShutdownWait"
StopBasePc(p) == CASE p = "startRollbackWait" -> "startRollback"
                   [] p = "hookRollbackWait" -> "hookRollback"
                   [] p = "syncShutdownWait" -> "syncShutdown"
SyncWaitPcs == {StopWaitPc(p) : p \in SyncStopPcs}

\* A rollback that hands the run context to Stop (variant).
StopCtxRunInRollback(p) ==
  CASE p = "stopRace" -> "timeout"
    [] p \in {"startRollback", "hookRollback"} -> "run"
    [] OTHER -> "background"

\* The context a Stop call is given at each place: shutdownCtx, made from
\* context.Background() with the graceful timeout, in the timed shutdown;
\* context.Background() in startAll's rollback, in the AfterStart
\* rollback and in the shutdown with no timeout.
StopCtx(p) ==
  CASE p = "stopRace" -> "timeout"
    [] OTHER -> "background"

\* shutdownModules, line 48: Run's goroutine calls Stop on module i.
SyncStopCall(k) ==
  /\ pc[k] \in SyncStopPcs
  /\ idx[k] >= 1
  /\ log' = Record(k, <<Ev("Stop", snap[k][idx[k]], "call", StopCtx(pc[k]))>>)
  /\ pc' = [pc EXCEPT ![k] = StopWaitPc(@)]
  /\ UNCHANGED <<regVars, appVars, metaVars, loopVars, ret, ctxDone, sig,
                 raceVars, aggVars, cur>>

\* shutdownModules, lines 48-53: that Stop returns, with an error or not.
SyncStopReturn(k) ==
  /\ pc[k] \in SyncWaitPcs
  /\ \E ok \in Outcomes("stop") :
       LET m == snap[k][idx[k]] IN
       /\ log' = Record(k, <<Ev("StopRet", m, Res(ok),
                                 StopCtx(StopBasePc(pc[k])))>>)
       /\ errs' = [errs EXCEPT ![k] = StopCollect(@, m, ok)]
  /\ idx' = [idx EXCEPT ![k] = StopNext(@)]
  /\ pc' = [pc EXCEPT ![k] = StopBasePc(@)]
  /\ UNCHANGED <<regVars, appVars, metaVars, snap, started, pend, ret,
                 ctxDone, sig, raceVars, aggVars, cur>>

\* A rollback whose own error is lost (variant).
RollbackJoinFirstOnly(err, shutdownErr) == err

\* startAll, lines 32-35, and Run, line 101: the error in hand (the start
\* error, the AfterStart hook error) joined with the rollback's error.
RollbackJoin(err, shutdownErr) == Join(err, shutdownErr)

\* shutdownModules, line 54, and what its caller does with the result.
SyncStopDone(k) ==
  /\ pc[k] \in SyncStopPcs
  /\ idx[k] = 0
  /\ IF pc[k] = "syncShutdown"
       THEN /\ pend' = [pend EXCEPT ![k] = JoinAll(errs[k])]
            /\ pc' = [pc EXCEPT ![k] = "afterStop"]
       ELSE /\ pend' = [pend EXCEPT ![k] = RollbackJoin(@, JoinAll(errs[k]))]
            /\ pc' = [pc EXCEPT ![k] = "exit"]
  /\ UNCHANGED <<regVars, appVars, metaVars, snap, idx, started, errs, ret,
                 ctxDone, sig, raceVars, aggVars, histVars>>

\* ------------------------------------------------- Application.Health
\* The modules that implement HealthChecker: all but module 2.
IsHealthChecker(m) == m # 2

\* A Health that gives up at the first failure (variant).
HealthCollectFirst(es, m, ok) ==
  IF ok \/ es # <<>> THEN es ELSE <<HealthErr(m)>>

\* Health, lines 56-58: a failure is wrapped with the module's name and
\* collected; the loop goes on.
HealthCollect(es, m, ok) == IF ok THEN es ELSE Append(es, HealthErr(m))

\* Health, line 54: the snapshot the loop ranges over.
HealthGetAll ==
  /\ health.st = "idle"
  /\ health' = [HealthIdle EXCEPT !.st = "loop", !.snap = GetAll, !.idx = 1]
  /\ UNCHANGED <<modules, names, locked, reg, view, appVars, metaVars, pc,
                 loopVars, ret, ctxDone, sig, raceVars, aggVars, histVars>>

\* Health, lines 55-59: one turn of the loop.  A module without the
\* capability is passed over; the Health method of one that has it is
\* called and returns nil or an error.
HealthCall ==
  /\ health.st = "loop"
  /\ health.idx <= Len(health.snap)
  /\ LET m == health.snap[health.idx] IN
       IF IsHealthChecker(m)
         THEN \E ok \in BOOLEAN :
                health' = [health EXCEPT
                             !.calls = Append(@, [id |-> m, res |-> Res(ok)]),
                             !.errs = HealthCollect(@, m, ok),
                             !.idx = @ + 1]
         ELSE health' = [health EXCEPT !.idx = @ + 1]
  /\ UNCHANGED <<modules, names, locked, reg, view, appVars, metaVars, pc,
                 loopVars, ret, ctxDone, sig, raceVars, aggVars, histVars>>

\* Health, line 61: errors.Join(errs...).
HealthReturn ==
  /\ health.st = "loop"
  /\ health.idx > Len(health.snap)
  /\ health' = [health EXCEPT !.st = "done", !.ret = JoinAll(health.errs)]
  /\ UNCHANGED <<modules, names, locked, reg, view, appVars, metaVars, pc,
                 loopVars, ret, ctxDone, sig, raceVars, aggVars, histVars>>

\* ------------------------------------------- collectBackgroundErrors
\* collectBackgroundErrors, lines 164-171: the background modules of the
\* snapshot, in order.
BgModules(list) == SelectSeq(list, IsBackground)

\* A fan-in channel with room for one value only (variant).
MergedCapOne(bgs) == 1

\* collectBackgroundErrors, line 177: make(chan error, len(bgModules)).
MergedCap(bgs) == Len(bgs)

\* collectBackgroundErrors: no background module, a nil channel and no
\* goroutine; else the fan-in channel, sized to their number, and one
\* reader per background module.
CollectBackgroundErrors(k) ==
  /\ pc[k] = "collect"
  /\ LET bgs == BgModules(GetAll) IN
       IF Len(bgs) = 0
         THEN UNCHANGED <<merged, rdr>>
         ELSE /\ merged' = [merged EXCEPT ![k] =
                   [made |-> TRUE, buf |-> <<>>, closed |-> FALSE,
                    cap |-> MergedCap(bgs)]]
              /\ rdr' = [rdr EXCEPT ![k] =
                   [m \in Modules |->
                      IF \E i \in 1..Len(bgs) : bgs[i] = m
                        THEN "waiting" ELSE "none"]]
  /\ pc' = [pc EXCEPT ![k] = "running"]
  /\ UNCHANGED <<regVars, appVars, metaVars, loopVars, ret, ctxDone, sig,
                 raceVars, bgCh, bgHist, histVars>>

\* What a reader does with the value it received from bg.Err(): forward
\* a non-nil error, finish on a nil value or a closed channel.
ReaderNext(ok, err) == IF ok /\ err # Nil THEN "sending" ELSE "done"

\* The reader goroutine, line 184: the receive from bg.Err().
ReaderRecv(k, m) ==
  /\ rdr[k][m] = "waiting"
  /\ bgCh[m].buf # <<>> \/ bgCh[m].closed
  /\ LET ok == bgCh[m].buf # <<>>
         err == IF ok THEN Head(bgCh[m].buf) ELSE Nil
     IN /\ rdr' = [rdr EXCEPT ![k][m] = ReaderNext(ok, err)]
        /\ bgCh' = [bgCh EXCEPT ![m].buf = IF ok THEN Tail(@) ELSE @]
        /\ bgHist' = [bgHist EXCEPT !.got[k][m] =
                        IF ~ok THEN "closed"
                        ELSE IF err = Nil THEN "nil" ELSE "err"]
  /\ UNCHANGED <<regVars, appVars, metaVars, pc, loopVars, ret, ctxDone,
                 sig, raceVars, merged, histVars>>

\* The reader goroutine, line 185: the send into the fan-in channel,
\* which needs room in its buffer.
ReaderSend(k, m) ==
  /\ rdr[k][m] = "sending"
  /\ Len(merged[k].buf) < merged[k].cap
  /\ merged' = [merged EXCEPT ![k].buf = Append(@, BgErr(m))]
  /\ rdr' = [rdr EXCEPT ![k][m] = "done"]
  /\ bgHist' = [bgHist EXCEPT !.sent[k] = Append(@, m)]
  /\ UNCHANGED <<regVars, appVars, metaVars, pc, loopVars, ret, ctxDone,
                 sig, raceVars, bgCh, histVars>>

\* A wait that ends when the first reader is done (variant).
WaitGroupDoneFirst(k) == \E m \in Modules : rdr[k][m] = "done"

\* wg.Wait(), line 191: every reader goroutine has run its wg.Done().
WaitGroupDone(k) == \A m \in Modules : rdr[k][m] \in {"none", "done"}

\* The completion goroutine, lines 190-193: wg.Wait(), close(merged).
CloseMerged(k) ==
  /\ merged[k].made
  /\ ~merged[k].closed
  /\ WaitGroupDone(k)
  /\ merged' = [merged EXCEPT ![k].closed = TRUE]
  /\ UNCHANGED <<regVars, appVars, metaVars, pc, loopVars, ret, ctxDone,
                 sig, raceVars, bgCh, rdr, bgHist, histVars>>

\* A background module is live from the return of its Start until the
\* Run that started it returns.
BgLive(m) ==
  /\ IsBackground(m)
  /\ \E k \in Calls : \E i \in 1..Len(started[k]) : started[k][i] = m

\* A live background module sends v on its Err() channel.
BgSend(m, v) ==
  /\ BgLive(m)
  /\ ~bgCh[m].closed
  /\ Len(bgCh[m].buf) < BgErrChCap
  /\ bgCh' = [bgCh EXCEPT ![m].buf = Append(@, v)]
  /\ UNCHANGED <<regVars, appVars, metaVars, pc, loopVars, ret, ctxDone,
                 sig, raceVars, rdr, merged, bgHist, histVars>>

\* A live background module closes its Err() channel.
BgClose(m) ==
  /\ BgLive(m)
  /\ ~bgCh[m].closed
  /\ bgCh' = [bgCh EXCEPT ![m].closed = TRUE]
  /\ UNCHANGED <<regVars, appVars, metaVars, pc, loopVars, ret, ctxDone,
                 sig, raceVars, rdr, merged, bgHist, histVars>>

\* ----------------------------------------- Run, the select (108-114)
\* A receive that treats a nil channel as a closed one (variant).
CanRecvNilToo(ch) == ~ch.made \/ ch.buf # <<>> \/ ch.closed

\* A receive from a channel can proceed when it holds a value or is
\* closed; a receive from a nil channel never proceeds.
CanRecv(ch) == ch.made /\ (ch.buf # <<>> \/ ch.closed)

\* The value a receive yields: the oldest buffered value, or the zero
\* value (nil) of a closed and drained channel.
RecvValue(ch) == IF ch.buf # <<>> THEN Head(ch.buf) ELSE Nil

\* Run, lines 109-110: the run context is done.
SelectCtxDone(k) ==
  /\ pc[k] = "running"
  /\ ctxDone[k]
  /\ log' = Record(k, <<Ev("Select", 0, "ctxDone", "run")>>)
  /\ pc' = [pc EXCEPT ![k] = "shutdown"]
  /\ UNCHANGED <<regVars, appVars, metaVars, loopVars, ret, ctxDone, sig,
                 raceVars, aggVars, cur>>

\* A faulty variant for comparison: the case does not cancel the context.
SelectBgErrNoCancel(k) ==
  /\ pc[k] = "running"
  /\ CanRecv(merged[k])
  /\ LET v == RecvValue(merged[k]) IN
       log' = Record(k, <<Ev("Select", 0,
                  IF v # Nil THEN "bgErr" ELSE "bgNil", "run")>>)
  /\ merged' = [merged EXCEPT ![k].buf = IF @ # <<>> THEN Tail(@) ELSE @]
  /\ pc' = [pc EXCEPT ![k] = "shutdown"]
  /\ UNCHANGED <<regVars, appVars, metaVars, loopVars, ret, ctxDone, sig,
                 raceVars, bgCh, rdr, bgHist, cur>>

\* Run, lines 111-113: a receive from the fan-in channel proceeds (a
\* forwarded error, or the zero value once the channel is closed); Run
\* logs it and cancels the run context.
SelectBgErr(k) ==
  /\ pc[k] = "running"
  /\ CanRecv(merged[k])
  /\ LET v == RecvValue(merged[k]) IN
       log' = Record(k, <<Ev("Select", 0,
                  IF v # Nil THEN "bgErr" ELSE "bgNil", "run")>>)
  /\ merged' = [merged EXCEPT ![k].buf = IF @ # <<>> THEN Tail(@) ELSE @]
  /\ ctxDone' = [ctxDone EXCEPT ![k] = TRUE]
  /\ pc' = [pc EXCEPT ![k] = "shutdown"]
  /\ UNCHANGED <<regVars, appVars, metaVars, loopVars, ret, sig, raceVars,
                 bgCh, rdr, bgHist, cur>>

\* A faulty variant for comparison: the race is set up for timeout 0 too.
TimedShutdownAlways(t) == t >= 0

\* ----------------------------------------------- Application.shutdown
\* shutdown, line 131: shutdownAll is raced against the graceful timeout
\* when the timeout is > 0.
TimedShutdown(t) == t > 0

\* A shutdown that a failing BeforeStop hook cuts short (variant).
BeforeStopNextAbort(f, next) ==
  IF f = 0 THEN next
  ELSE IF next = "getAll" THEN "none" ELSE "afterStop"

\* shutdown, lines 125-128: a BeforeStop failure is logged and the
\* shutdown takes its next step all the same.
BeforeStopNext(f, next) == next

\* shutdown, lines 125-147: the BeforeStop hooks (a failure is logged and
\* the shutdown goes on), then shutdownAll: in a goroutine raced against
\* the timeout, or on Run's own goroutine.
RunHooksBeforeStop(k) ==
  /\ pc[k] = "shutdown"
  /\ \E f \in HookOutcomes("BeforeStop") :
       /\ log' = Record(k, HookCalls("BeforeStop", f, "background"))
       /\ IF TimedShutdown(shutdownTimeout)
            THEN /\ gor' = [gor EXCEPT ![k] =
                              [GorNone EXCEPT !.st = BeforeStopNext(f, "getAll")]]
                 /\ errCh' = [errCh EXCEPT ![k] = <<>>]
                 /\ timerFired' = [timerFired EXCEPT ![k] = FALSE]
                 /\ duringStop' = [duringStop EXCEPT ![k] = FALSE]
                 /\ delivered' = [delivered EXCEPT ![k] = FALSE]
                 /\ pc' = [pc EXCEPT ![k] = BeforeStopNext(f, "stopRace")]
                 /\ UNCHANGED <<snap, idx, errs>>
            ELSE /\ snap' = [snap EXCEPT ![k] = GetAll]
                 /\ idx' = [idx EXCEPT ![k] = StopFirst(GetAll)]
                 /\ errs' = [errs EXCEPT ![k] = <<>>]
                 /\ pc' = [pc EXCEPT ![k] = BeforeStopNext(f, "syncShutdown")]
                 /\ UNCHANGED raceVars
  /\ UNCHANGED <<regVars, appVars, metaVars, started, pend, ret, ctxDone,
                 sig, aggVars, cur>>

\* The goroutine of line 136: shutdownAll's getAll (runner, line 58).
GoGetAll(k) ==
  /\ gor[k].st = "getAll"
  /\ gor' = [gor EXCEPT ![k] =
               [st |-> IF Len(GetAll) = 0 THEN "send" ELSE "call",
                snap |-> GetAll, idx |-> StopFirst(GetAll), errs |-> <<>>]]
  /\ UNCHANGED <<regVars, appVars, metaVars, pc, loopVars, ret, ctxDone, sig,
                 errCh, timerFired, duringStop, delivered, aggVars, histVars>>

\* The goroutine calls Stop on module i with the timeout context.
GoStopCall(k) ==
  /\ gor[k].st = "call"
  /\ log' = Record(k, <<Ev("Stop", gor[k].snap[gor[k].idx], "call",
                           StopCtx("stopRace"))>>)
  /\ gor' = [gor EXCEPT ![k].st = "wait"]
  /\ UNCHANGED <<regVars, appVars, metaVars, pc, loopVars, ret, ctxDone, sig,
                 errCh, timerFired, duringStop, delivered, aggVars, cur>>

\* That Stop returns, with an error or not.
GoStopReturn(k) ==
  /\ gor[k].st = "wait"
  /\ \E ok \in Outcomes("stop") :
       LET m == gor[k].snap[gor[k].idx] IN
       /\ log' = Record(k, <<Ev("StopRet", m, Res(ok), StopCtx("stopRace"))>>)
       /\ gor' = [gor EXCEPT ![k].errs = StopCollect(@, m, ok),
                             ![k].idx = StopNext(@),
                             ![k].st = IF StopNext(gor[k].idx) >= 1
                                         THEN "call" ELSE "send"]
  /\ UNCHANGED <<regVars, appVars, metaVars, pc, loopVars, ret, ctxDone, sig,
                 errCh, timerFired, duringStop, delivered, aggVars, cur>>

\* An unbuffered result channel: a send proceeds only while Run waits in
\* the select to receive it (variant).
ErrChHasRoomUnbuffered(k) == pc[k] = "stopRace" /\ errCh[k] = <<>>

\* errCh := make(chan error, 1), line 135: a send proceeds while the
\* buffer has room, whether or not anything receives.
ErrChHasRoom(k) == Len(errCh[k]) < ShutdownErrChCap

\* The goroutine, line 137: its one send of shutdownAll's result, which
\* needs room in the channel's buffer.
GoSend(k) ==
  /\ gor[k].st = "send"
  /\ ErrChHasRoom(k)
  /\ errCh' = [errCh EXCEPT ![k] = Append(@, JoinAll(gor[k].errs))]
  /\ gor' = [gor EXCEPT ![k].st = "done"]
  /\ UNCHANGED <<regVars, appVars, metaVars, pc, loopVars, ret, ctxDone, sig,
                 timerFired, duringStop, delivered, aggVars, histVars>>

\* The deadline of shutdownCtx passes while Run waits in the select.
TimerFire(k) ==
  /\ pc[k] = "stopRace"
  /\ ~timerFired[k]
  /\ timerFired' = [timerFired EXCEPT ![k] = TRUE]
  /\ duringStop' = [duringStop EXCEPT ![k] = gor[k].st = "wait"]
  /\ delivered' = [delivered EXCEPT ![k] = errCh[k] # <<>>]
  /\ UNCHANGED <<regVars, appVars, metaVars, pc, loopVars, ret, ctxDone, sig,
                 gor, errCh, aggVars, histVars>>

\* A receive that does not wait for the goroutine's send (variant).
SelectErrChEarly(k) ==
  /\ pc[k] = "stopRace"
  /\ pend' = [pend EXCEPT ![k] = Nil]
  /\ log' = Record(k, <<Ev("Select", 0, "errCh", "timeout")>>)
  /\ pc' = [pc EXCEPT ![k] = "afterStop"]
  /\ UNCHANGED <<regVars, appVars, metaVars, snap, idx, started, errs, ret,
                 ctxDone, sig, raceVars, aggVars, cur>>

\* shutdown, line 141: the goroutine's result arrived.
SelectErrCh(k) ==
  /\ pc[k] = "stopRace"
  /\ errCh[k] # <<>>
  /\ pend' = [pend EXCEPT ![k] = Head(errCh[k])]
  /\ errCh' = [errCh EXCEPT ![k] = Tail(@)]
  /\ log' = Record(k, <<Ev("Select", 0, "errCh", "timeout")>>)
  /\ pc' = [pc EXCEPT ![k] = "afterStop"]
  /\ UNCHANGED <<regVars, appVars, metaVars, snap, idx, started, errs, ret,
                 ctxDone, sig, gor, timerFired, duringStop, delivered,
                 aggVars, cur>>

\* A faulty variant for comparison: the timer case waits for the
\* goroutine to have delivered its result.
SelectTimeoutAfterStops(k) ==
  /\ pc[k] = "stopRace"
  /\ timerFired[k]
  /\ gor[k].st = "done"
  /\ pend' = [pend EXCEPT ![k] = ErrGracefulShutdownTimedOut]
  /\ log' = Record(k, <<Ev("Select", 0, "timeout", "timeout")>>)
  /\ pc' = [pc EXCEPT ![k] = "afterStop"]
  /\ UNCHANGED <<regVars, appVars, metaVars, snap, idx, started, errs, ret,
                 ctxDone, sig, raceVars, aggVars, cur>>

\* shutdown, lines 142-143: shutdownCtx is done.
SelectTimeout(k) ==
  /\ pc[k] = "stopRace"
  /\ timerFired[k]
  /\ pend' = [pend EXCEPT ![k] = ErrGracefulShutdownTimedOut]
  /\ log' = Record(k, <<Ev("Select", 0, "timeout", "timeout")>>)
  /\ pc' = [pc EXCEPT ![k] = "afterStop"]
  /\ UNCHANGED <<regVars, appVars, metaVars, snap, idx, started, errs, ret,
                 ctxDone, sig, raceVars, aggVars, cur>>

\* An AfterStop failure that replaces the shutdown error (variant).
AfterStopOverwrite(shutdownErr, f) ==
  IF f = 0 THEN shutdownErr ELSE HookErr("AfterStop", f)

\* shutdown, lines 155-158: an AfterStop hook failure is joined onto the
\* shutdown error.
AfterStopJoin(shutdownErr, f) ==
  IF f = 0 THEN shutdownErr ELSE Join(shutdownErr, HookErr("AfterStop", f))

RunHooksAfterStop(k) ==
  /\ pc[k] = "afterStop"
  /\ \E f \in HookOutcomes("AfterStop") :
       /\ log' = Record(k, HookCalls("AfterStop", f, "background"))
       /\ pend' = [pend EXCEPT ![k] = AfterStopJoin(@, f)]
  /\ pc' = [pc EXCEPT ![k] = "shutdownDefer"]
  /\ UNCHANGED <<regVars, appVars, metaVars, snap, idx, started, errs, ret,
                 ctxDone, sig, raceVars, aggVars, cur>>

\* A deferred reset made only when the shutdown had no error (variant).
StoreOnDeferIfClean(err) == err # Nil

\* shutdown, line 122: `a.isRunning.Store(false)` in the deferred
\* function, whatever error shutdown returns.
StoreOnDefer(err) == FALSE

\* shutdown's deferred calls, lines 120-123 and 133: timeoutCancel, the
\* stop time, the run-state flag back to false.
ShutdownDefer(k) ==
  /\ pc[k] = "shutdownDefer"
  /\ timerFired' = [timerFired EXCEPT ![k] = shutdownTimeout > 0 \/ @]
  /\ now' = now + 1
  /\ stopTime' = now'
  /\ isRunning' = StoreOnDefer(pend[k])
  /\ pc' = [pc EXCEPT ![k] = "exit"]
  /\ UNCHANGED <<regVars, cfgVars, startTime, loopVars, ret, ctxDone, sig,
                 gor, errCh, duringStop, delivered, aggVars, histVars>>

\* A Run that does not cancel its context when it returns (variant).
DeferCancelMissing(done) == done

\* `defer cancel()`, line 76: the run context is done when Run returns.
DeferCancel(done) == TRUE

\* A Run that joins the background error it received to the result of
\* the shutdown (variant).
RunResultWithBgErr(k) ==
  IF \E i \in 1..Len(log) : log[i] = Ev("Select", 0, "bgErr", "run")
    THEN Join(Leaf("background", 0), pend[k])
    ELSE pend[k]

\* `return a.shutdown()`, line 116, and the early returns: Run returns
\* the error in hand and nothing else; bgErr is logged only.
RunResult(k) == pend[k]

\* Run returns the error in hand; its deferred cancel() (line 76) runs.
RunReturn(k) ==
  /\ pc[k] = "exit"
  /\ ret' = [ret EXCEPT ![k] = RunResult(k)]
  /\ ctxDone' = [ctxDone EXCEPT ![k] = DeferCancel(@)]
  /\ pc' = [pc EXCEPT ![k] = "returned"]
  /\ NoLocals(k)
  /\ UNCHANGED <<regVars, appVars, metaVars, sig, raceVars, aggVars,
                 histVars>>

\* ------------------------------------------------------ specification
\* The steps of Run invocation k on its own goroutine, up to its return,
\* with the select of lines 108-114 taking the cancellation case.
RunStep(k) ==
  \/ RunLock(k)
  \/ InitAllGetAll(k)
  \/ InitCall(k)
  \/ RunHooksBeforeStart(k)
  \/ StartAllGetAll(k)
  \/ StartCall(k)
  \/ RunHooksAfterStart(k)
  \/ SyncStopCall(k)
  \/ SyncStopDone(k)
  \/ CollectBackgroundErrors(k)
  \/ SelectCtxDone(k)
  \/ RunHooksBeforeStop(k)
  \/ SelectErrCh(k)
  \/ SelectTimeout(k)
  \/ RunHooksAfterStop(k)
  \/ ShutdownDefer(k)
  \/ RunReturn(k)

\* The goroutine of the timed shutdown, between its Stop calls.
GoStep(k) ==
  \/ GoGetAll(k)
  \/ GoStopCall(k)
  \/ GoSend(k)

\* A module's Stop call returns: that is up to the module.
StopReturns(k) ==
  \/ SyncStopReturn(k)
  \/ GoStopReturn(k)

\* What cancels the run context from outside Run, and the listener.
CancelStep(k) ==
  \/ ExternalCancel(k)
  \/ SignalReceived(k)
  \/ SignalCtxDone(k)

\* The background modules signalling: an error sent, the channel closed.
BgSignals ==
  \/ \E m \in Modules : BgSend(m, Leaf("module", m))
  \/ \E m \in Modules : BgClose(m)

\* The same, with modules that also deliver nil values.
BgSignalsAny ==
  \/ \E m \in Modules : \E v \in {Nil, Leaf("module", m)} : BgSend(m, v)
  \/ \E m \in Modules : BgClose(m)

\* The aggregator's goroutines.
AggregatorStep(k) ==
  \/ \E m \in Modules : ReaderRecv(k, m)
  \/ \E m \in Modules : ReaderSend(k, m)
  \/ CloseMerged(k)

\* Modules are registered at any time; Run is invoked MaxCalls times, at
\* any time; the first invocation is followed to its return and the
\* later ones through their compare-and-swap.  The background modules
\* stay healthy: none signals on its Err() channel.
Next ==
  \/ \E m \in Offered : Register(m)
  \/ \E k \in Calls : RunCAS(k)
  \/ RunStep(1)
  \/ GoStep(1)
  \/ TimerFire(1)
  \/ StopReturns(1)
  \/ CancelStep(1)

Spec == Init /\ [][Next]_vars

\* One Run invocation of an Application with a graceful timeout > 0,
\* under the scheduling the Go runtime gives: a goroutine that can take
\* a step takes it, and a timer that is set fires.  Nothing is assumed
\* of the modules (a Stop call need not return) nor of the callers of
\* Register, Run and cancel.
InitTimed == InitWith(<<HookOnlyAfterStart, HookAll>>, FaultKinds, {1})

NextTimed ==
  \/ \E m \in Offered : Register(m)
  \/ RunCAS(1)
  \/ RunStep(1)
  \/ GoStep(1)
  \/ TimerFire(1)
  \/ StopReturns(1)
  \/ CancelStep(1)

Fairness ==
  /\ WF_vars(RunStep(1))
  /\ WF_vars(GoStep(1))
  /\ WF_vars(TimerFire(1))

SpecTimed == InitTimed /\ [][NextTimed]_vars /\ Fairness

\* The same with the signal listener scheduled too: when its select can
\* take the case of the done context, it eventually takes a case.
SpecTimedListener == SpecTimed /\ WF_vars(SignalCtxDone(1))

\* One Run invocation whose background modules signal: they send errors
\* on, or close, their Err() channels.  No hooks, no module call fails,
\* and no signal is delivered to the process (the listener stays
\* parked); the caller may cancel the context.
InitBg == InitWith(<<>>, {}, TimeoutConfigs)

NextBg ==
  \/ \E m \in Offered : Register(m)
  \/ RunCAS(1)
  \/ RunStep(1)
  \/ SelectBgErr(1)
  \/ GoStep(1)
  \/ TimerFire(1)
  \/ StopReturns(1)
  \/ ExternalCancel(1)
  \/ BgSignals
  \/ AggregatorStep(1)

SpecBg == InitBg /\ [][NextBg]_vars

\* The same under the runtime's scheduling, with modules whose Stop calls
\* return.  Nothing is assumed of the background modules' signalling nor
\* of the callers of Register, Run and cancel.
FairnessBg ==
  /\ WF_vars(RunStep(1) \/ SelectBgErr(1))
  /\ WF_vars(GoStep(1))
  /\ WF_vars(TimerFire(1))
  /\ WF_vars(StopReturns(1))
  /\ WF_vars(AggregatorStep(1))

SpecBgFair == SpecBg /\ FairnessBg

\* The registry on its own: register calls that overlap each other and
\* lock(), offering a module for each caller, the twin of module 1 and
\* the module with the empty name.
Instances == {0, Twin} \cup {m \in Modules : m <= MaxRegistrants}

InitRegistry == InitWith(<<>>, {}, {0})

NextRegistry ==
  \/ \E c \in Registrants : \E m \in Instances : RegisterLoad(c, m)
  \/ \E c \in Registrants : RegisterCommit(c)
  \/ \E c \in Registrants : RegisterReturn(c)
  \/ RegistryLock

SpecRegistry == InitRegistry /\ [][NextRegistry]_vars

\* One caller registering modules while Run is invoked, every Run
\* invocation followed to its return.  The Application has no graceful timeout, so shutdown stops
\* the modules synchronously; no hooks, no module call fails, no signal
\* is delivered; the caller may cancel the context.
SyncRunStep(k) ==
  \/ RunLock(k)
  \/ InitAllGetAll(k)
  \/ InitCall(k)
  \/ RunHooksBeforeStart(k)
  \/ StartAllGetAll(k)
  \/ StartCall(k)
  \/ RunHooksAfterStart(k)
  \/ CollectBackgroundErrors(k)
  \/ SelectCtxDone(k)
  \/ RunHooksBeforeStop(k)
  \/ SyncStopCall(k)
  \/ SyncStopReturn(k)
  \/ SyncStopDone(k)
  \/ RunHooksAfterStop(k)
  \/ ShutdownDefer(k)
  \/ RunReturn(k)

InitRace == InitWith(<<>>, {}, {0})

NextRace ==
  \/ \E m \in Offered : RegisterLoad(1, m)
  \/ RegisterCommit(1)
  \/ RegisterReturn(1)
  \/ \E k \in Calls : RunCAS(k)
  \/ \E k \in Calls : SyncRunStep(k)
  \/ \E k \in Calls : ExternalCancel(k)

SpecRace == InitRace /\ [][NextRace]_vars

\* The background error aggregator: one Run invocation of an Application
\* with no graceful timeout and no hooks, whose second and third modules
\* are BackgroundModules that deliver nil values and errors on their
\* Err() channels and close them, at any time.  No module call
\* fails; the caller may cancel the context.
InitAgg == InitWithBg(<<>>, {}, {0}, {2, 3})

NextAgg ==
  \/ \E m \in Offered : Register(m)
  \/ RunCAS(1)
  \/ SyncRunStep(1)
  \/ SelectBgErr(1)
  \/ ExternalCancel(1)
  \/ BgSignalsAny
  \/ AggregatorStep(1)

SpecAgg == InitAgg /\ [][NextAgg]_vars

\* The same under the runtime's scheduling of the aggregator's
\* goroutines.  Nothing is assumed of the modules' signalling.
SpecAggFair == SpecAgg /\ WF_vars(AggregatorStep(1))

\* One Run of an Application built with any list of hooks, whose
\* callbacks may fail; no graceful timeout, no module call fails.
InitHooks == \E h \in HookConfigs : InitWith(h, {"hook"}, {0})

NextHooks ==
  \/ \E m \in Offered : Register(m)
  \/ RunCAS(1)
  \/ SyncRunStep(1)
  \/ ExternalCancel(1)

SpecHooks == InitHooks /\ [][NextHooks]_vars

\* Health called once while a caller registers modules, in any order;
\* every Health method may fail.
InitHealth == InitWith(<<>>, {}, {0})

NextHealth ==
  \/ \E m \in Modules : RegisterLoad(1, m)
  \/ RegisterCommit(1)
  \/ RegisterReturn(1)
  \/ HealthGetAll
  \/ HealthCall
  \/ HealthReturn

SpecHealth == InitHealth /\ [][NextHealth]_vars

\* Callers registering modules while another caller takes snapshots of
\* the registry and writes into the snapshot it holds.
InitSnapshot == InitWith(<<>>, {}, {0})

NextSnapshot ==
  \/ \E m \in Offered : Register(m)
  \/ ViewTake
  \/ \E i \in Modules : \E v \in Modules \cup {NilModule} : ViewOverwrite(i, v)
  \/ \E i \in Modules : \E j \in Modules : ViewSwap(i, j)

SpecSnapshot == InitSnapshot /\ [][NextSnapshot]_vars

\* ---------------------------------------------- reading the history
\* The events of the history with operation op, and the modules (or
\* hook indices) they are about, in order.
EventsOf(op) == LET Is(e) == e.op = op IN SelectSeq(log, Is)
IdsOf(evs) == [i \in 1..Len(evs) |-> evs[i].id]
InitCalls == IdsOf(EventsOf("Init"))
StartCalls == IdsOf(EventsOf("Start"))
StopCalls == IdsOf(EventsOf("Stop"))
StopsReturned == IdsOf(EventsOf("StopRet"))
HookCallsMade == {i \in 1..Len(log) : log[i].op \in HookKinds}

\* The Stop calls that returned an error, in the order they returned, as
\* the error that joins them.
StopFailures ==
  LET Failed(e) == e.op = "StopRet" /\ e.res = "err"
      bad == SelectSeq(log, Failed)
  IN JoinAll([i \in 1..Len(bad) |-> StopErr(bad[i].id)])

Reverse(s) == [i \in 1..Len(s) |-> s[Len(s) + 1 - i]]
IsPrefix(s, t) == Len(s) <= Len(t) /\ s = SubSeq(t, 1, Len(s))

\* Invocation k holds the run: it won the compare-and-swap and has not
\* yet run the deferred reset of shutdown.
Active(k) == pc[k] \notin {"idle", "exit", "returned"}

\* Invocation k is at its return (its return value is pend[k]) and the
\* history is its own.
AtExit(k) == cur = k /\ pc[k] = "exit"

\* The run reached the select of lines 108-114 and left it.
ShutdownEntered == \E i \in 1..Len(log) : log[i].op = "Select" /\ log[i].ctx = "run"

\* Some call of the history failed, or the shutdown timed out.
SomeFailure == \E i \in 1..Len(log) : log[i].res \in {"err", "timeout"}

\* ----------------------------------------------------------------- C1
\* C1: of Run calls that overlap, exactly one holds the run at a time: a
\* call whose compare-and-swap is made while another call holds the run
\* returns ErrApplicationAlreadyRunning at once and does nothing else,
\* the call that holds the run finds the flag true all along, and once
\* that call has completed its shutdown the flag is false.
C1_MutualExclusion ==
  /\ \A j, k \in Calls : (Active(j) /\ Active(k)) => j = k
  /\ \A k \in Calls : Active(k) => isRunning
  /\ \A k \in Calls :
       (AtExit(k) /\ ShutdownEntered) => ~isRunning

C1_LoserRejected ==
  \A k \in Calls :
    (pc[k] = "idle" /\ pc'[k] # "idle" /\ \E j \in Calls : Active(j))
      => /\ pc'[k] = "returned"
         /\ ret'[k] = ErrApplicationAlreadyRunning
         /\ UNCHANGED <<regVars, appVars, metaVars, loopVars, ctxDone, sig,
                        raceVars, aggVars, histVars>>

\* C1: both parts, the invariant and the rejection step.
C1_ConcurrentRun == []C1_MutualExclusion /\ [][C1_LoserRejected]_vars

\* The second call was rejected while the first held the run, and the
\* first has completed its shutdown.
C1_Witness ==
  /\ AtExit(1) /\ ShutdownEntered /\ ~isRunning
  /\ pc[2] = "returned" /\ ret[2] = ErrApplicationAlreadyRunning

\* ----------------------------------------------------------------- C2
\* C2: when a Run call that won the compare-and-swap returns, whatever
\* the outcome, the run-state flag is false (no other call having won
\* the compare-and-swap since).
C2_FlagResetOnEveryExit ==
  \A k \in Calls : (cur = k /\ pc[k] = "returned") => ~isRunning

\* ----------------------------------------------------------------- C3
\* C3: when Start of the module at registration index j fails, at the
\* return of Run exactly the modules before j were given Stop, once each
\* and in reverse registration order, each of these calls returned,
\* Start was called on the modules up to j and on no other, and the
\* error returned joins the start failure with the failure of every
\* rollback Stop that failed.
C3_StartFailureRollback ==
  \A j \in 1..Len(modules) :
    (/\ AtExit(1)
     /\ \E i \in 1..Len(log) : log[i] = Ev("Start", modules[j], "err", "run"))
      => /\ StopCalls = Reverse(SubSeq(modules, 1, j - 1))
         /\ StopsReturned = StopCalls
         /\ StartCalls = SubSeq(modules, 1, j)
         /\ pend[1] = Join(StartErr(modules[j]), StopFailures)

\* Start of the last module failed and so did the rollback Stop of every
\* module before it.
C3_Witness ==
  /\ AtExit(1)
  /\ Len(modules) = NumModules
  /\ StopCalls = Reverse(SubSeq(modules, 1, NumModules - 1))
  /\ Len(StopFailures) = NumModules - 1
  /\ pend[1] = Join(StartErr(modules[NumModules]), StopFailures)

\* ----------------------------------------------------------------- C4
\* The history of a run of all registered modules in which nothing fails.
OkEvents(op, order, res) ==
  [i \in 1..Len(order) |-> Ev(op, order[i], res, "run")]
StopEvents(order, ctx) ==
  [i \in 1..(2 * Len(order)) |->
     IF i % 2 = 1 THEN Ev("Stop", order[(i + 1) \div 2], "call", ctx)
                  ELSE Ev("StopRet", order[i \div 2], "ok", ctx)]
CleanRun ==
  OkEvents("Init", modules, "ok")
    \o HookCalls("BeforeStart", 0, "run")
    \o OkEvents("Start", modules, "ok")
    \o HookCalls("AfterStart", 0, "run")
    \o <<Ev("Select", 0, "ctxDone", "run")>>
    \o HookCalls("BeforeStop", 0, "background")
    \o (IF shutdownTimeout > 0
          THEN StopEvents(Reverse(modules), "timeout")
                 \o <<Ev("Select", 0, "errCh", "timeout")>>
          ELSE StopEvents(Reverse(modules), "background"))
    \o HookCalls("AfterStop", 0, "background")

\* C4: a Run in which no module call and no hook fails and the shutdown
\* does not time out has made, when it returns, exactly these calls in
\* exactly this order: Init of every module in registration order, the
\* BeforeStart hooks, Start of every module in registration order, the
\* AfterStart hooks, the wait for cancellation, the BeforeStop hooks,
\* Stop of every module in reverse registration order (each returning
\* before the next is called), the AfterStop hooks.
C4_LifecycleOrder ==
  (AtExit(1) /\ ~SomeFailure) => (log = CleanRun /\ pend[1] = Nil)

\* Such a run of NumModules modules with hooks of every kind, under
\* either kind of shutdown.
C4_Witness ==
  /\ AtExit(1) /\ ~SomeFailure
  /\ Len(modules) = NumModules
  /\ StopCalls = Reverse(modules)
  /\ Len(HookCalls("BeforeStop", 0, "background")) > 0
  /\ shutdownTimeout > 0

\* ----------------------------------------------------------------- C5
\* The timer of the timed shutdown has fired and a Stop call made by
\* its goroutine has not returned, Run waiting in the select.
TimerFiredDuringStop == timerFired[1] /\ gor[1].st = "wait" /\ pc[1] = "stopRace"

C5_SelectDuringStop ==
  /\ gor[1].st \in {"getAll", "call", "wait", "send"} => errCh[1] = <<>>
  /\ TimerFiredDuringStop =>
       (ENABLED SelectTimeout(1) /\ ~ENABLED SelectErrCh(1))
  /\ (cur = 1 /\ pc[1] \in {"afterStop", "shutdownDefer", "exit"}
        /\ \E i \in 1..Len(log) : log[i].res = "timeout")
       => ErrIs(pend[1], ErrGracefulShutdownTimedOut)

C6_ZeroTimeoutWaits ==
  shutdownTimeout = 0 =>
    /\ \A k \in Calls :
         /\ ~ErrIs(ret[k], ErrGracefulShutdownTimedOut)
         /\ ~ErrIs(pend[k], ErrGracefulShutdownTimedOut)
         /\ gor[k] = GorNone /\ ~timerFired[k] /\ pc[k] # "stopRace"
    /\ pc[1] = "syncShutdownWait" => ~ENABLED RunStep(1)
    /\ (cur = 1 /\ ShutdownEntered
          /\ pc[1] \in {"afterStop", "shutdownDefer", "exit"})
         => StopsReturned = Reverse(modules)

\* A run with timeout 0 whose shutdown of NumModules modules is over.
C6_Witness ==
  /\ shutdownTimeout = 0
  /\ AtExit(1) /\ ShutdownEntered
  /\ Len(modules) = NumModules
  /\ StopsReturned = Reverse(modules)

\* ----------------------------------------------------------------- C7
\* Run's select took the case of the fan-in channel with a non-nil error.
BgErrorTaken == \E i \in 1..Len(log) : log[i] = Ev("Select", 0, "bgErr", "run")

\* A reader of the aggregator holds a non-nil error it received from a
\* background module's Err() channel.
BgErrorDelivered == \E m \in Modules : rdr[1][m] = "sending"

\* C7: a background module's Err() channel is only read once start-up
\* has succeeded; when a reader has received a non-nil error from it, Run
\* eventually returns with no cancellation from outside needed; when
\* Run's select takes that error, Run itself cancels the run context and
\* enters the shutdown routine; and at the return of such a Run Stop has
\* been called on every registered module, background or not, in reverse
\* registration order (on the leading ones of that order when the
\* graceful timeout expired first).
C7_ShutdownOnBgError ==
  /\ BgErrorDelivered =>
       (StartCalls = modules
          /\ pc[1] \notin {"idle", "lock", "initAll", "init", "beforeStart",
                           "startAll", "start", "afterStart", "collect"})
  /\ (cur = 1 /\ BgErrorTaken) => (ctxDone[1] /\ pc[1] # "running")
  /\ (AtExit(1) /\ BgErrorTaken) =>
       IF \E i \in 1..Len(log) : log[i].res = "timeout"
         THEN IsPrefix(StopCalls, Reverse(modules))
         ELSE StopCalls = Reverse(modules) /\ StopsReturned = StopCalls

C8_ShutdownOnlyOnCancelOrError ==
  [][(pc[1] = "running" /\ pc'[1] = "shutdown")
       => \/ ctxDone[1]
          \/ (merged[1].buf # <<>> /\ Head(merged[1].buf) # Nil)]_vars

\* ----------------------------------------------------------------- C9
\* Whether shutdownAll, having returned res, did what C9 says.
ShutdownAllDid(res) ==
  /\ StopCalls = Reverse(modules)
  /\ StopsReturned = StopCalls
  /\ res = StopFailures
  /\ \A m \in Modules :
       Cardinality({i \in 1..Len(res) : res[i] = StopErr(m)[1]})
         = IF \E i \in 1..Len(log) : log[i].op = "StopRet" /\ log[i].id = m
                                      /\ log[i].res = "err"
             THEN 1 ELSE 0

\* C9: when shutdownAll returns, on Run's goroutine or on the goroutine
\* of the timed shutdown, Stop has been called on every registered
\* module, once each and in reverse registration order, whichever of
\* the calls failed, and the error it returns joins exactly one entry
\* per failing module: none (nil) when none failed.
C9_ShutdownAllCollects ==
  cur = 1 =>
    /\ (pc[1] = "afterStop" /\ shutdownTimeout = 0) => ShutdownAllDid(pend[1])
    /\ gor[1].st \in {"send", "done"} => ShutdownAllDid(JoinAll(gor[1].errs))
    /\ errCh[1] # <<>> => ShutdownAllDid(Head(errCh[1]))

\* shutdownAll over NumModules modules returned on Run's goroutine with
\* the first and the last Stop call made failing and none between.
C9_Witness ==
  /\ cur = 1 /\ pc[1] = "afterStop" /\ shutdownTimeout = 0
  /\ Len(modules) = NumModules
  /\ pend[1] = Join(StopErr(modules[NumModules]), StopErr(modules[1]))

\* ---------------------------------------------------------------- C10
\* C10: when Init of the module at registration index j fails, Init was
\* called on the modules up to j in registration order and on no other,
\* nothing else was called (no Start, no Stop, no hook), Run is at its
\* return, and the error it returns is that module's Init error wrapped
\* with the module's name.
C10_InitFailureStops ==
  \A j \in 1..Len(modules) :
    (cur = 1 /\ \E i \in 1..Len(log) : log[i] = Ev("Init", modules[j], "err", "run"))
      => /\ log = [i \in 1..j |->
                     Ev("Init", modules[i], IF i = j THEN "err" ELSE "ok", "run")]
         /\ pc[1] \in {"exit", "returned"}
         /\ pc[1] = "exit" => pend[1] = InitErr(modules[j])
         /\ pc[1] = "returned" => ret[1] = InitErr(modules[j])

\* Of NumModules modules the second failed Init, with hooks configured,
\* and Run returned its error.
C10_Witness ==
  /\ cur = 1 /\ pc[1] = "returned"
  /\ Len(modules) = NumModules
  /\ Len(hooks) > 0
  /\ InitCalls = SubSeq(modules, 1, 2)
  /\ ret[1] = InitErr(modules[2])

\* ---------------------------------------------------------------- C11
\* C11: however register calls interleave with a Run call, no register
\* call returns success having inserted its module after the locked flag
\* was set, and once the flag is set the module sequence no longer
\* changes (so the snapshots initAll, startAll and shutdownAll take in
\* one Run are the same sequence).
C11_RegistryFrozenOnceLocked ==
  /\ [](\A c \in Registrants :
          ~(reg[c].st = "done" /\ reg[c].res = Nil /\ reg[c].late))
  /\ [][locked => modules' = modules]_vars

\* ---------------------------------------------------------------- C12
\* C12: the locked flag, once set, is never cleared - not by another
\* lock(), not by Run returning, not by a second Run - and a register
\* call that starts while the flag is set fails with
\* ErrRegistrationClosed and leaves the module sequence and the name set
\* as they were.
C12_LockedIsFinal ==
  [][locked =>
       /\ locked'
       /\ \A c \in Registrants :
            reg[c].st = "idle" /\ reg'[c].st # "idle" =>
              /\ reg'[c].st = "done"
              /\ reg'[c].res = ErrRegistrationClosed
              /\ modules' = modules
              /\ names' = names
       /\ \A c \in Registrants :
            reg[c].res = ErrRegistrationClosed =>
              modules' = modules /\ names' = names]_vars

\* A register call was rejected as closed after the first Run returned
\* from its shutdown and a second Run locked the registry again and
\* returned as well.
C12_Witness ==
  /\ locked
  /\ pc[1] = "returned" /\ ret[1] = Nil
  /\ pc[2] = "returned" /\ ret[2] = Nil
  /\ reg[1].st = "done" /\ reg[1].res = ErrRegistrationClosed
  /\ Len(modules) > 0

\* ---------------------------------------------------------------- C13
\* The names of the modules in the sequence, and how often a name occurs.
NamesOf(seq) == {ModuleName(seq[i]) : i \in 1..Len(seq)}
Occurrences(seq, n) ==
  Cardinality({i \in 1..Len(seq) : ModuleName(seq[i]) = n})

\* C13: a register call for a module whose name the sequence already
\* holds fails with ErrModuleAlreadyRegistered naming that module, and
\* the sequence and the name set stay as they were: the name still
\* occurs once, on the instance that was registered first.
C13_DuplicateRejected ==
  [][\A c \in Registrants :
       /\ reg[c].st = "checked"
       /\ reg'[c].st = "done"
       /\ ModuleName(reg[c].m) \in NamesOf(modules)
       => /\ reg'[c].res = ErrModuleAlreadyRegistered(reg[c].m)
          /\ modules' = modules
          /\ names' = names
          /\ Occurrences(modules', ModuleName(reg[c].m)) = 1]_vars

\* On an unlocked registry holding module 1, the call that offered its
\* twin (another instance, same name) was rejected; module 1 is kept.
C13_Witness ==
  /\ ~locked
  /\ \E c \in Registrants :
       /\ reg[c].st = "done"
       /\ reg[c].m = Twin
       /\ reg[c].res = ErrModuleAlreadyRegistered(Twin)
  /\ \E i \in 1..Len(modules) : modules[i] = 1
  /\ \A i \in 1..Len(modules) : modules[i] # Twin

\* ---------------------------------------------------------------- C14
\* C14: in every state of the registry, whatever register calls ran or
\* are running, no module of the sequence has the empty name, no two
\* have the same name, and the name set is the set of the names in the
\* sequence; a register call for a module with the empty name fails and
\* changes nothing, with ErrModuleNameEmpty (on a registry it finds
\* locked the earlier check answers ErrRegistrationClosed).
C14_RegistryInvariant ==
  /\ [](/\ \A i \in 1..Len(modules) : ModuleName(modules[i]) # ""
        /\ \A i, j \in 1..Len(modules) :
             i # j => ModuleName(modules[i]) # ModuleName(modules[j])
        /\ names = NamesOf(modules))
  /\ [][\A c \in Registrants :
          reg[c].st = "idle" /\ reg'[c].st # "idle" /\ reg'[c].m = 0 =>
            /\ reg'[c].st = "done"
            /\ reg'[c].res =
                 IF locked THEN ErrRegistrationClosed ELSE ErrModuleNameEmpty
            /\ modules' = modules
            /\ names' = names]_vars

\* Every name offered is registered, a call with the empty name was
\* rejected on the unlocked registry and another call is about to enter
\* its critical section.
C14_Witness ==
  /\ ~locked
  /\ Len(modules) = MaxRegistrants
  /\ \E c \in Registrants :
       /\ reg[c].st = "done"
       /\ reg[c].m = 0
       /\ reg[c].res = ErrModuleNameEmpty
  /\ \E c \in Registrants : reg[c].st = "checked"

\* ---------------------------------------------------------------- C15
\* C15: register calls that overlap on an unlocked registry and carry
\* distinct non-empty names all succeed: a call with a non-empty name
\* that finds the registry unlocked passes the checks made before the
\* mutex, and in its critical section, no module of that name being in
\* the sequence, returns success having appended its module at the end
\* (so the sequence is in the order the successful calls were made);
\* the module of a call that succeeded is in the sequence exactly once.
C15_DistinctNamesAllSucceed ==
  /\ [][\A c \in Registrants :
          /\ (reg[c].st = "idle" /\ reg'[c].st # "idle"
                /\ ~locked /\ ModuleName(reg'[c].m) # ""
              => reg'[c].st = "checked")
          /\ (reg[c].st = "checked" /\ reg'[c].st = "done"
                /\ ModuleName(reg[c].m) \notin NamesOf(modules)
              => /\ reg'[c].res = Nil
                 /\ modules' = Append(modules, reg[c].m))]_vars
  /\ [](\A c \in Registrants :
          reg[c].st = "done" /\ reg[c].res = Nil =>
            /\ Occurrences(modules, ModuleName(reg[c].m)) = 1
            /\ \E i \in 1..Len(modules) : modules[i] = reg[c].m)

\* Every caller has registered a module of its own on the unlocked
\* registry, all at once, and the calls did not finish in the order of
\* the modules' numbers.
C15_Witness ==
  /\ ~locked
  /\ \A c \in Registrants : reg[c].st = "done" /\ reg[c].res = Nil
  /\ \A c, d \in Registrants : c # d => reg[c].m # reg[d].m
  /\ Len(modules) = MaxRegistrants
  /\ \E i, j \in 1..Len(modules) : i < j /\ modules[i] > modules[j]

\* ---------------------------------------------------------------- C16
\* C16: within one Run, whatever register calls overlap it, a module's
\* Start is called only after every Init call of the Run succeeded, its
\* own among them, and a module's Stop is called only after its own
\* Start returned success in the same Run.
C16_StartAfterInitStopAfterStart ==
  \A i \in 1..Len(log) :
    /\ log[i].op = "Start" =>
         /\ \A j \in 1..(i - 1) : log[j].op = "Init" => log[j].res = "ok"
         /\ \E j \in 1..(i - 1) : log[j] = Ev("Init", log[i].id, "ok", "run")
    /\ log[i].op = "Stop" =>
         \E j \in 1..(i - 1) : log[j] = Ev("Start", log[i].id, "ok", "run")

\* ---------------------------------------------------------------- C17
\* How many times the history has a call of that operation on module m.
CallsOn(op, m) ==
  Cardinality({i \in 1..Len(log) : log[i].op = op /\ log[i].id = m})

\* C17: within one Run a module's Init, Start and Stop are each called
\* at most once, whichever way the Run goes: shutdown with or without a
\* timeout, timed out or not, the rollback of a failed Start, the
\* rollback of a failed AfterStart hook.
C17_AtMostOnceEach ==
  \A m \in Modules :
    /\ CallsOn("Init", m) <= 1
    /\ CallsOn("Start", m) <= 1
    /\ CallsOn("Stop", m) <= 1

\* Run returned ErrGracefulShutdownTimedOut and the goroutine it left
\* behind went on to stop every module: each was initialised, started
\* and stopped once.
C17_Witness ==
  /\ pc[1] = "returned"
  /\ ErrIs(ret[1], ErrGracefulShutdownTimedOut)
  /\ Len(modules) = NumModules
  /\ \A m \in Modules :
       CallsOn("Init", m) = 1 /\ CallsOn("Start", m) = 1 /\ CallsOn("Stop", m) = 1

\* ---------------------------------------------------------------- C18
\* The history has that operation with that result.
Happened(op, res) ==
  \E i \in 1..Len(log) : log[i].op = op /\ log[i].res = res

\* C18: a Run that went through the shutdown routine has set the
\* run-state flag back to false by the time it returns, also when the
\* BeforeStop hook, the Stop calls and the AfterStop hook failed or the
\* shutdown timed out; and the compare-and-swap of a Run invoked after it
\* returned succeeds, so that Run is not rejected.
C18_RunnableAgainAfterShutdown ==
  /\ [](\A k \in Calls :
          cur = k /\ pc[k] \in {"exit", "returned"} /\ ShutdownEntered
            => ~isRunning)
  /\ [][\A j, k \in Calls :
          /\ cur = j /\ pc[j] = "returned" /\ ShutdownEntered
          /\ pc[k] = "idle" /\ pc'[k] # "idle"
          => pc'[k] = "lock" /\ isRunning' /\ cur' = k]_vars

\* Run returned from a shutdown in which a BeforeStop hook, every Stop
\* call and an AfterStop hook failed; the flag is false and the next
\* invocation has not been made yet.
C18_Witness ==
  /\ cur = 1 /\ pc[1] = "returned" /\ pc[2] = "idle"
  /\ ~isRunning
  /\ Len(modules) = NumModules
  /\ Happened("BeforeStop", "err")
  /\ Happened("AfterStop", "err")
  /\ StopFailures = JoinAll([i \in 1..NumModules |-> StopErr(Reverse(modules)[i])])
  /\ ret[1] # Nil

\* ---------------------------------------------------------------- C19
\* A module's Init, Start or Stop call of this Run has returned an error.
ModuleCallFailed ==
  \E i \in 1..Len(log) :
    log[i].op \in {"Init", "Start", "StopRet"} /\ log[i].res = "err"

\* C19: the value Run returns is not nil when a module's Init, Start or
\* Stop call of that Run has returned an error, whichever way the Run
\* went (Init or Start failure, rollback, shutdown with or without a
\* timeout).
C19_ModuleErrorReturned ==
  /\ (AtExit(1) /\ ModuleCallFailed) => pend[1] # Nil
  /\ (cur = 1 /\ pc[1] = "returned" /\ ModuleCallFailed) => ret[1] # Nil

\* Run without a timeout returned the error of the one call that failed,
\* the Stop of the module registered first (the last to be stopped).
C19_Witness ==
  /\ cur = 1 /\ pc[1] = "returned" /\ shutdownTimeout = 0
  /\ Len(modules) = NumModules
  /\ ShutdownEntered
  /\ \A i \in 1..Len(log) :
       log[i].res = "err" => log[i] = Ev("StopRet", modules[1], "err", "background")
  /\ ret[1] = StopErr(modules[1])

\* ---------------------------------------------------------------- C20
\* C20: when an AfterStart hook fails, every module having been started,
\* then at the return of Run every module was given Stop, once each and
\* in reverse registration order, each of these calls returned, and the
\* error returned joins the hook's failure with the failure of every
\* rollback Stop that failed.
C20_AfterStartRollback ==
  \A f \in 1..Len(hooks) :
    (/\ AtExit(1)
     /\ \E i \in 1..Len(log) : log[i] = Ev("AfterStart", f, "err", "run"))
      => /\ StartCalls = modules
         /\ StopCalls = Reverse(modules)
         /\ StopsReturned = StopCalls
         /\ \A i \in 1..Len(log) :
              log[i].op \in {"Stop", "StopRet"} => log[i].ctx = "background"
         /\ pend[1] = Join(HookErr("AfterStart", f), StopFailures)

\* The AfterStart callback of the second hook failed after the first
\* hook's succeeded, and so did the rollback Stop of every module.
C20_Witness ==
  /\ AtExit(1)
  /\ Len(modules) = NumModules
  /\ \E i \in 1..Len(log) : log[i] = Ev("AfterStart", 2, "err", "run")
  /\ StopCalls = Reverse(modules)
  /\ Len(StopFailures) = NumModules
  /\ pend[1] = Join(HookErr("AfterStart", 2), StopFailures)

\* ---------------------------------------------------------------- C21
\* The callbacks of that kind the history has, as hook indices in order.
HooksRun(kind) == IdsOf(EventsOf(kind))

\* C21: once a BeforeStart callback has failed, the Run is at its return
\* with the hook's error in hand (wrapped as the before-start-hook
\* error), and in that Run no module is given Start or Stop and no
\* AfterStart, BeforeStop or AfterStop callback is invoked.
C21_BeforeStartFailureAborts ==
  \A f \in 1..Len(hooks) :
    (cur = 1 /\ \E i \in 1..Len(log) : log[i] = Ev("BeforeStart", f, "err", "run"))
      => /\ pc[1] \in {"exit", "returned"}
         /\ pc[1] = "exit" => pend[1] = HookErr("BeforeStart", f)
         /\ pc[1] = "returned" => ret[1] = HookErr("BeforeStart", f)
         /\ StartCalls = <<>>
         /\ StopCalls = <<>>
         /\ HooksRun("AfterStart") = <<>>
         /\ HooksRun("BeforeStop") = <<>>
         /\ HooksRun("AfterStop") = <<>>

\* Every module was initialised, the BeforeStart callback of the second
\* hook failed and Run has returned its error.
C21_Witness ==
  /\ cur = 1 /\ pc[1] = "returned"
  /\ Len(modules) = NumModules
  /\ InitCalls = modules
  /\ \E i \in 1..Len(log) : log[i] = Ev("BeforeStart", 2, "err", "run")
  /\ ret[1] = HookErr("BeforeStart", 2)

\* ---------------------------------------------------------------- C22
\* Run's select of the timed shutdown took the timer case.
TimeoutTaken ==
  \E i \in 1..Len(log) : log[i] = Ev("Select", 0, "timeout", "timeout")

\* The AfterStop callbacks were run, up to the first that failed if any.
AfterStopRan ==
  \E f \in HookOutcomes("AfterStop") :
    EventsOf("AfterStop") = HookCalls("AfterStop", f, "background")

\* C22: a BeforeStop callback that fails does not cut the shutdown
\* short.  At the return of such a Run the modules were given Stop in
\* reverse registration order - all of them, each call returned, unless
\* Run took the timer case of a timed shutdown - the AfterStop callbacks
\* were run, the value returned does not hold the BeforeStop error, and
\* it is nil when nothing else failed.
C22_BeforeStopFailureLogged ==
  (AtExit(1) /\ Happened("BeforeStop", "err")) =>
    /\ IsPrefix(StopCalls, Reverse(modules))
    /\ ~TimeoutTaken =>
         StopCalls = Reverse(modules) /\ StopsReturned = StopCalls
    /\ AfterStopRan
    /\ \A f \in 1..Len(hooks) : ~ErrIs(pend[1], HookErr("BeforeStop", f))
    /\ (\A i \in 1..Len(log) :
          log[i].res \in {"err", "timeout"} => log[i].op = "BeforeStop")
         => pend[1] = Nil

\* A BeforeStop callback failed and nothing else did: every module was
\* stopped, the AfterStop callback ran and Run returns nil.
C22_Witness ==
  /\ AtExit(1)
  /\ Len(modules) = NumModules
  /\ Happened("BeforeStop", "err")
  /\ StopsReturned = Reverse(modules)
  /\ Happened("AfterStop", "ok")
  /\ pend[1] = Nil

\* ---------------------------------------------------------------- C23
\* The shutdown error there is when the AfterStop hooks are run: the
\* timeout error if Run took the timer case, else the join of the
\* failures of the Stop calls.
ShutdownErrBeforeAfterStop ==
  IF TimeoutTaken THEN ErrGracefulShutdownTimedOut ELSE StopFailures

\* C23: when an AfterStop callback fails, the value Run returns is the
\* shutdown error there was (the joined Stop failures, or
\* ErrGracefulShutdownTimedOut) followed by the hook's error: the earlier
\* error is kept, and with no earlier error the value is the hook's error
\* alone.
C23_AfterStopFailureJoined ==
  \A f \in 1..Len(hooks) :
    (/\ AtExit(1)
     /\ \E i \in 1..Len(log) : log[i] = Ev("AfterStop", f, "err", "background"))
      => /\ pend[1] = Join(ShutdownErrBeforeAfterStop, HookErr("AfterStop", f))
         /\ TimeoutTaken => ErrIs(pend[1], ErrGracefulShutdownTimedOut)
         /\ ErrIs(pend[1], HookErr("AfterStop", f))
         /\ ShutdownErrBeforeAfterStop = Nil =>
              pend[1] = HookErr("AfterStop", f)

\* The shutdown timed out and the AfterStop callback failed as well: Run
\* returns both errors.
C23_Witness ==
  /\ AtExit(1)
  /\ Len(modules) = NumModules
  /\ TimeoutTaken
  /\ Happened("AfterStop", "err")
  /\ pend[1] = Join(ErrGracefulShutdownTimedOut, HookErr("AfterStop", 2))

\* ---------------------------------------------------------------- C24
\* The modules whose Stop call returned before entry i of the history.
ReturnedBefore(i) ==
  LET IsRet(e) == e.op = "StopRet"
  IN IdsOf(SelectSeq(SubSeq(log, 1, i - 1), IsRet))

\* Run's select took the timer case before entry i of the history.
TimeoutTakenBefore(i) ==
  \E j \in 1..(i - 1) : log[j] = Ev("Select", 0, "timeout", "timeout")

HooksWith(kind) ==
  LET IsSet(i) == hooks[i][kind]
  IN SelectSeq([i \in 1..Len(hooks) |-> i], IsSet)

\* The place of Run at which the hooks of that kind are run.
HookPc(kind) ==
  CASE kind = "BeforeStart" -> "beforeStart"
    [] kind = "AfterStart" -> "afterStart"
    [] kind = "BeforeStop" -> "shutdown"
    [] kind = "AfterStop" -> "afterStop"

\* What a step appended to the history.
Appendix == SubSeq(log', Len(log) + 1, Len(log'))

\* C25: running the hooks of one kind invokes callbacks of that kind
\* only, those of the hooks that have it set, in the order the hooks were
\* registered and up to the first that fails: every set callback when
\* none fails.  A hook with the callback unset is passed over and yields
\* no error.
C25_HooksInRegistrationOrder ==
  [][\A kind \in HookKinds :
       (pc[1] = HookPc(kind) /\ pc'[1] # pc[1]) =>
         /\ \A i \in 1..Len(Appendix) :
              /\ Appendix[i].op = kind
              /\ hooks[Appendix[i].id][kind]
              /\ Appendix[i].res = "err" => i = Len(Appendix)
         /\ IsPrefix(IdsOf(Appendix), HooksWith(kind))
         /\ (\A i \in 1..Len(Appendix) : Appendix[i].res = "ok")
              => IdsOf(Appendix) = HooksWith(kind)]_vars

\* The first hook has only BeforeStop set and the last has every
\* callback: BeforeStart called the last hook alone, BeforeStop the first
\* and then the last, and the AfterStop callback failed.
C25_Witness ==
  /\ cur = 1
  /\ Len(hooks) = MaxHooks
  /\ hooks[1] = HookOnly("BeforeStop")
  /\ hooks[MaxHooks] = HookAll
  /\ HooksRun("BeforeStart") = <<MaxHooks>>
  /\ HooksRun("BeforeStop") = <<1, MaxHooks>>
  /\ Happened("AfterStop", "err")

\* ---------------------------------------------------------------- C26
\* C26: a Run call whose compare-and-swap finds the flag true returns
\* ErrApplicationAlreadyRunning and that step changes nothing else: not
\* the flag, the registry or its lock, the start and stop times, the
\* signal listeners, the contexts, the goroutines and channels, nor the
\* history of module and hook calls; and the call takes no step after it.
C26_LoserStep ==
  \A k \in Calls :
    (pc[k] = "idle" /\ pc'[k] # "idle" /\ isRunning)
      => /\ pc' = [pc EXCEPT ![k] = "returned"]
         /\ ret' = [ret EXCEPT ![k] = ErrApplicationAlreadyRunning]
         /\ isRunning' = isRunning
         /\ locked' = locked /\ modules' = modules /\ names' = names
         /\ startTime' = startTime /\ stopTime' = stopTime /\ now' = now
         /\ sig' = sig /\ ctxDone' = ctxDone
         /\ log' = log /\ cur' = cur
         /\ UNCHANGED <<loopVars, raceVars, aggVars>>

C26_LoserAfter ==
  \A k \in Calls :
    (pc[k] = "returned" /\ ret[k] = ErrApplicationAlreadyRunning) =>
      /\ cur # k
      /\ sig[k] = "none" /\ ~ctxDone[k]
      /\ gor[k] = GorNone
      /\ ~ENABLED (RunStep(k) \/ GoStep(k) \/ CancelStep(k))

C26_LoserHasNoEffect == [][C26_LoserStep]_vars /\ []C26_LoserAfter

\* The second call lost the compare-and-swap right after the first won
\* it: the registry is not locked, no time is stamped, nothing listens.
C26_Witness ==
  /\ pc[1] = "lock"
  /\ pc[2] = "returned" /\ ret[2] = ErrApplicationAlreadyRunning
  /\ ~locked /\ startTime = 0 /\ sig[1] = "none" /\ sig[2] = "none"
  /\ log = <<>>

\* ---------------------------------------------------------------- C27
\* The modules of the snapshot that implement HealthChecker, in order.
HealthCapable(seq) == SelectSeq(seq, IsHealthChecker)

\* The Health calls that failed, in the order they were made.
HealthFailed ==
  LET Bad(c) == c.res = "err"
  IN IdsOf(SelectSeq(health.calls, Bad))

\* C27: when Health returns, it has called the Health method of the
\* modules of its snapshot that implement HealthChecker, each once, in
\* registration order, whether or not an earlier one failed; it returns
\* nil when none failed (also when no module has the capability), and
\* else the join of one error per failing module, naming that module,
\* in that order.
C27_HealthJoinsFailures ==
  health.st = "done" =>
    /\ IsPrefix(health.snap, modules)
    /\ IdsOf(health.calls) = HealthCapable(health.snap)
    /\ health.ret = JoinAll([i \in 1..Len(HealthFailed) |-> HealthErr(HealthFailed[i])])
    /\ (HealthFailed = <<>>) <=> (health.ret = Nil)
    /\ Len(health.ret) = Len(HealthFailed)
    /\ \A m \in Modules :
         Cardinality({i \in 1..Len(health.ret) : <<health.ret[i]>> = HealthErr(m)})
           = IF \E i \in 1..Len(HealthFailed) : HealthFailed[i] = m THEN 1 ELSE 0

\* Every module is registered, the one without the capability between
\* two that have it; both Health methods failed and Health returned the
\* two errors.
C27_Witness ==
  /\ health.st = "done"
  /\ Len(health.snap) = NumModules
  /\ \E i \in 2..(NumModules - 1) : ~IsHealthChecker(health.snap[i])
  /\ Len(health.calls) = NumModules - 1
  /\ \A i \in 1..Len(health.calls) : health.calls[i].res = "err"
  /\ Len(health.ret) = NumModules - 1

\* C28: getAll returns a copy.  A step in which the caller overwrites or
\* reorders elements of the snapshot it holds changes neither the
\* registry's sequence nor what getAll returns, and a step in which a
\* register succeeds leaves a snapshot taken earlier as it was.
C28_SnapshotStep ==
  /\ (view.taken /\ view'.taken /\ view'.seq # view.seq)
       => (modules' = modules /\ GetAll' = GetAll)
  /\ (view.taken /\ modules' # modules) => view' = view

C28_GetAllReturnsCopy == [][C28_SnapshotStep]_vars

\* The caller holds a snapshot of the full registry in which one element
\* was set to nil and two others changed places, a module was registered
\* after the snapshot was taken, and the registry is in registration
\* order.
C28_Witness ==
  /\ view.taken
  /\ Len(modules) = NumModules
  /\ modules = [i \in 1..NumModules |-> i]
  /\ Len(view.seq) = NumModules - 1
  /\ view.seq[1] = NilModule
  /\ \E i \in 2..Len(view.seq) : view.seq[i] # i


\* C29: when no registered module implements BackgroundModule,
\* collectBackgroundErrors returns a nil channel and starts no goroutine,
\* the receive from that channel in Run's select never proceeds, and Run
\* leaves the running phase only by the case of the cancelled context.
NoBackgroundModule == BgModules(modules) = <<>>

C29_NilChannel ==
  (NoBackgroundModule /\ pc[1] = "running") =>
    /\ ~merged[1].made
    /\ \A m \in Modules : rdr[1][m] = "none"
    /\ ~ENABLED SelectBgErr(1)
    /\ \A i \in 1..Len(log) :
         log[i].op = "Select" => log[i].res \notin {"bgErr", "bgNil"}

C29_LeavesRunning ==
  (NoBackgroundModule /\ pc[1] = "running" /\ pc'[1] # "running") =>
    /\ ctxDone[1]
    /\ pc'[1] = "shutdown"
    /\ log' = Append(log, Ev("Select", 0, "ctxDone", "run"))
    /\ UNCHANGED <<merged, rdr>>

C29_NoBackgroundModuleNilChannel ==
  /\ []C29_NilChannel
  /\ [][C29_LeavesRunning]_vars

\* Run was invoked with one module registered, which is no
\* BackgroundModule; it waited in the select and left it after the
\* caller cancelled the context, and it has returned.
C29_Witness ==
  /\ modules = <<1>>
  /\ NoBackgroundModule
  /\ pc[1] = "returned"
  /\ ~merged[1].made
  /\ \E i \in 1..Len(log) : log[i] = Ev("Select", 0, "ctxDone", "run")

\* C30: with a graceful timeout > 0, when shutdownAll's result was
\* already in errCh at the moment the timer fired, the result of the
\* shutdown is that result and is not ErrGracefulShutdownTimedOut.
C30_FirstFinisherDecides ==
  (delivered[1] /\ pc[1] \in {"afterStop", "shutdownDefer", "exit"})
    => ~ErrIs(pend[1], ErrGracefulShutdownTimedOut)

\* C31: no Stop call is given the run context.  A Stop call of the
\* shutdown routine is given the graceful-timeout context when the
\* timeout is > 0 and a background context when it is 0; a Stop call of a
\* rollback (after a Start failure or an AfterStart hook failure) is
\* given a background context; and a step that cancels the run context
\* leaves the graceful-timeout context as it was.
C31_InShutdown(i) ==
  \E j \in 1..(i - 1) : log[j].op = "Select" /\ log[j].ctx = "run"

C31_StopContexts ==
  \A i \in 1..Len(log) :
    log[i].op \in {"Stop", "StopRet"} =>
      /\ log[i].ctx # "run"
      /\ log[i].ctx = (IF C31_InShutdown(i) /\ shutdownTimeout > 0
                         THEN "timeout" ELSE "background")

C31_CancelStep ==
  (~ctxDone[1] /\ ctxDone'[1]) => timerFired' = timerFired

C31_StopNeverGetsRunContext ==
  /\ []C31_StopContexts
  /\ [][C31_CancelStep]_vars

\* An AfterStart hook failed after the caller had cancelled the run
\* context, and the rollback has called Stop on a started module.
C31_Witness ==
  /\ cur = 1
  /\ ctxDone[1]
  /\ pc[1] = "hookRollbackWait"
  /\ \E i \in 1..Len(log) : log[i].op = "AfterStart" /\ log[i].res = "err"
  /\ log[Len(log)].op = "Stop" /\ log[Len(log)].ctx = "background"

\* C32: no reader of the aggregator blocks on its send into the fan-in
\* channel, whether or not Run receives from it: a reader that holds an
\* error to forward can send it at once, each reader sends at most once,
\* and the values buffered in the fan-in channel never outnumber its
\* capacity, the number of background modules.
C32_Occurrences(seq, m) == Cardinality({i \in 1..Len(seq) : seq[i] = m})

C32_NoReaderBlocks ==
  merged[1].made =>
    /\ merged[1].cap = Len(BgModules(modules))
    /\ Len(merged[1].buf) <= merged[1].cap
    /\ \A m \in Modules :
         /\ rdr[1][m] = "sending" => ENABLED ReaderSend(1, m)
         /\ C32_Occurrences(bgHist.sent[1], m) <= 1
         /\ rdr[1][m] # "done" => C32_Occurrences(bgHist.sent[1], m) = 0

\* Run left the select because the caller cancelled, so it never
\* receives from the fan-in channel; every background module delivered
\* an error, every reader forwarded its error and the fan-in channel is
\* full.
C32_Witness ==
  /\ merged[1].made
  /\ merged[1].cap = Cardinality(bgSet)
  /\ Cardinality(bgSet) > 1
  /\ Len(merged[1].buf) = merged[1].cap
  /\ Len(bgHist.sent[1]) = merged[1].cap
  /\ \A i \in 1..Len(log) : log[i].op = "Select" => log[i].res = "ctxDone"
  /\ pc[1] = "returned"

\* C33: the fan-in channel is closed once, only after every reader has
\* finished, and no reader sends on it afterwards; when it is closed it
\* has been sent exactly one error for each module whose reader received
\* a non-nil error and none for the others; and once every background
\* module has delivered a value on its error channel or closed it (no
\* reader is left waiting on a silent module), the fan-in channel is
\* eventually closed.
C33_Forwarded == {m \in Modules : bgHist.got[1][m] = "err"}

C33_ClosedState ==
  merged[1].closed =>
    /\ \A m \in Modules : rdr[1][m] \in {"none", "done"}
    /\ \A m \in Modules : IsBackground(m) /\ rdr[1][m] = "done"
          => bgHist.got[1][m] \in {"err", "nil", "closed"}
    /\ Len(bgHist.sent[1]) = Cardinality(C33_Forwarded)
    /\ \A m \in Modules :
         C32_Occurrences(bgHist.sent[1], m) =
           (IF m \in C33_Forwarded THEN 1 ELSE 0)

C33_CloseStep ==
  /\ merged[1].closed => (merged'[1].closed /\ bgHist'.sent = bgHist.sent)
  /\ (~merged[1].closed /\ merged'[1].closed) =>
       /\ \A m \in Modules : rdr[1][m] \in {"none", "done"}
       /\ rdr' = rdr

\* A reader waits on an error channel that holds no value and is not
\* closed: its module has not signalled.
C33_ModuleSilent ==
  \E m \in Modules :
    rdr[1][m] = "waiting" /\ bgCh[m].buf = <<>> /\ ~bgCh[m].closed

C33_FanInClosed ==
  /\ []C33_ClosedState
  /\ [][C33_CloseStep]_vars
  /\ (merged[1].made /\ ~C33_ModuleSilent) ~> merged[1].closed

\* The fan-in channel is closed after one background module's reader
\* received an error and forwarded it and the other module's channel was
\* closed with nothing sent.
C33_Witness ==
  /\ merged[1].closed
  /\ \E m \in Modules : bgHist.got[1][m] = "err"
  /\ \E m \in Modules : bgHist.got[1][m] = "closed"
  /\ Len(bgHist.sent[1]) = 1

\* C34: whatever values a background module delivers on its error
\* channel, its first non-nil error is forwarded into the fan-in channel:
\* once the module's reader has finished, an error that the module has
\* delivered (received by the reader or lying in the error channel) has
\* been forwarded under the module's name.
C34_DeliveredError(m) ==
  \/ bgHist.got[1][m] = "err"
  \/ \E i \in 1..Len(bgCh[m].buf) : bgCh[m].buf[i] # Nil

C34_FirstErrorForwarded ==
  \A m \in Modules :
    (rdr[1][m] = "done" /\ C34_DeliveredError(m))
      => C32_Occurrences(bgHist.sent[1], m) = 1

\* C35: the goroutine that runs shutdownAll in the timed shutdown can
\* always finish.  Its send of the result never blocks, also after the
\* timer case was taken and Run has stopped receiving; it sends once;
\* and whenever it is not inside a module's Stop call it goes on, so it
\* terminates once the Stop calls have returned.
C35_SendNeverBlocks ==
  /\ gor[1].st = "send" => ENABLED GoSend(1)
  /\ Len(errCh[1]) <= ShutdownErrChCap
  /\ gor[1].st \in {"getAll", "call", "wait", "send"} => errCh[1] = <<>>

C35_GoroutineCanFinish ==
  /\ []C35_SendNeverBlocks
  /\ (gor[1].st \in {"getAll", "call", "send"})
       ~> (gor[1].st \in {"wait", "done"})

\* Run has returned ErrGracefulShutdownTimedOut, and the goroutine, whose
\* Stop calls returned afterwards, has sent its result into the channel
\* nobody receives from and is done.
C35_Witness ==
  /\ cur = 1 /\ pc[1] = "returned"
  /\ ErrIs(ret[1], ErrGracefulShutdownTimedOut)
  /\ duringStop[1]
  /\ gor[1].st = "done"
  /\ Len(errCh[1]) = 1

\* C36: the signal listener launched by Run terminates on every exit
\* path of that Run.  When Run has returned, the run context is cancelled
\* and the listener has ended or can end by the case of the done
\* context; the listener ends either having cancelled the run context
\* on a signal or with the context already done, without acting; and
\* after Run's return the listener eventually ends.
C36_AtReturn ==
  pc[1] = "returned" =>
    /\ ctxDone[1]
    /\ sig[1] \in {"listening", "done"}
    /\ sig[1] = "listening" => ENABLED SignalCtxDone(1)

C36_ListenerStep ==
  (sig[1] = "listening" /\ sig'[1] = "done") =>
    /\ ctxDone'[1]
    /\ UNCHANGED <<pc, ret, log>>

C36_ListenerTerminates ==
  /\ []C36_AtReturn
  /\ [][C36_ListenerStep]_vars
  /\ (pc[1] = "returned") ~> (sig[1] = "done")

\* Run has returned an Init error with no signal delivered, and the
\* listener ended afterwards on the context cancelled by Run's return.
C36_Witness ==
  /\ cur = 1 /\ pc[1] = "returned"
  /\ \E i \in 1..Len(ret[1]) : ret[1][i].k = "init"
  /\ sig[1] = "done"
  /\ \A i \in 1..Len(log) : log[i].op # "Select"

\* C37: Uptime() is never negative: whenever a start time has been
\* stamped, the end point uptime uses (the stop time when one is set,
\* else the current time) is not earlier than the start time, also
\* while a second Run is in progress after a first Run's shutdown.
C37_UptimeNeverNegative == startTime # 0 => Uptime >= 0

\* C38 as stated: once Run has returned and the run-state flag is false,
\* no Stop call issued by that Run is still executing or still to be
\* issued.
C38_StopOutstanding ==
  \/ gor[1].st \in {"call", "wait"}
  \/ gor[1].st = "getAll" /\ modules # <<>>

C38_NoStopAfterReturn ==
  (pc[1] = "returned" /\ ~isRunning) => ~C38_StopOutstanding

\* C38: once Run has returned from a shutdown whose select did not take
\* the timer case and the run-state flag is false, every Stop call that
\* Run issued has returned and none is still to be issued; and a
\* following Run that wins the compare-and-swap after such a shutdown
\* does so with no Stop call of the previous Run in progress.
C38_StopsOver ==
  /\ gor[1].st \in {"none", "done"}
  /\ StopCalls = StopsReturned

C38_AtReturn ==
  (cur = 1 /\ pc[1] = "returned" /\ ~isRunning /\ ~TimeoutTaken)
    => C38_StopsOver

C38_NextRunStep ==
  (cur = 1 /\ pc[1] = "returned" /\ ~TimeoutTaken
     /\ pc[2] = "idle" /\ pc'[2] = "lock")
    => C38_StopsOver

C38_NoStopAfterCleanReturn ==
  /\ []C38_AtReturn
  /\ [][C38_NextRunStep]_vars

\* Run has returned from a timed shutdown that shutdownAll won, with
\* Stop called on every module, and the next Run has won the
\* compare-and-swap.
C38_Witness ==
  /\ pc[1] = "returned" /\ pc[2] = "lock"
  /\ shutdownTimeout > 0
  /\ gor[1].st = "done"
  /\ Len(gor[1].snap) = NumModules

\* C39: a background module's error is never part of what Run returns.
\* When Run left the running phase on a background module's error, the
\* value it returns holds no background error, and it is nil when the
\* shutdown routine finished with no Stop error, no timeout and no
\* AfterStop hook error.
C39_ShutdownClean ==
  /\ ~TimeoutTaken
  /\ \A i \in 1..Len(log) :
       log[i].op \in {"StopRet", "AfterStop"} => log[i].res = "ok"

C39_BgErrorNotReturned ==
  (cur = 1 /\ pc[1] = "returned" /\ BgErrorTaken) =>
    /\ \A i \in 1..Len(ret[1]) : ret[1][i].k \notin {"background", "module"}
    /\ C39_ShutdownClean => ret[1] = Nil

\* Run has returned nil after a background module's error made it leave
\* the select and Stop was called on every module.
C39_Witness ==
  /\ cur = 1 /\ pc[1] = "returned"
  /\ BgErrorTaken
  /\ C39_ShutdownClean
  /\ Len(StopsReturned) = NumModules
  /\ ret[1] = Nil

\* C40: within one hook kind the run of the callbacks stops at the first
\* that returns an error.  Every other callback of that kind in the Run
\* was invoked before it, succeeded and belongs to an earlier hook, so no
\* later hook's callback of that kind is invoked; the error of the
\* failed callback, and of no other callback of the kind, is in what Run
\* returns for BeforeStart, AfterStart and AfterStop; after a BeforeStop
\* failure the shutdown goes on (the AfterStop callbacks run and the
\* run-state flag is reset) with the later BeforeStop callbacks skipped
\* and the error not returned.
C40_LeavesOf(err, kind) == {n \in 1..Len(err) : err[n].k = kind}

C40_FirstFailureEndsPhase ==
  cur = 1 =>
    \A kind \in HookKinds : \A i \in 1..Len(log) :
      (log[i].op = kind /\ log[i].res = "err") =>
        /\ \A j \in 1..Len(log) :
             (j # i /\ log[j].op = kind) =>
               j < i /\ log[j].res = "ok" /\ log[j].id < log[i].id
        /\ (kind # "BeforeStop" /\ pc[1] = "returned") =>
             /\ ErrIs(ret[1], HookErr(kind, log[i].id))
             /\ Cardinality(C40_LeavesOf(ret[1], kind)) = 1
        /\ (kind = "BeforeStop" /\ pc[1] = "returned") =>
             /\ C40_LeavesOf(ret[1], kind) = {}
             /\ ~isRunning
             /\ HooksWith("AfterStop") # <<>> => HooksRun("AfterStop") # <<>>

\* Both hooks have every callback set; the BeforeStop callback of the
\* first failed, that of the second was not invoked, the shutdown went on
\* to the AfterStop callbacks and Run has returned.
C40_Witness ==
  /\ cur = 1 /\ pc[1] = "returned"
  /\ Len(hooks) = MaxHooks
  /\ \A i \in 1..Len(hooks) : hooks[i] = HookAll
  /\ EventsOf("BeforeStop") = <<Ev("BeforeStop", 1, "err", "background")>>
  /\ Len(HooksRun("AfterStop")) = MaxHooks
  /\ modules # <<>>

==========================================================================
